---- MODULE Spec2Model ----
(***************************************************************************)
(* Visitor Book PWA: the IndexedDB storage module (js/storage.js), the     *)
(* two service workers of the repository (sw.js, generation                *)
(* 'visitorbook-v4', cache-first; and the network-first worker of          *)
(* generation 'visitorbook-v6'), and the page (js/app.js with js/camera.js *)
(* and js/canvas.js): its screens, handlers and awaited storage calls.     *)
(*                                                                         *)
(* SpecStore       : calls of the storage module against the IndexedDB     *)
(*                   engine (open requests, transactions, commit, abort).  *)
(* SpecCollections : the schema upgrade and both collections on a device   *)
(*                   earlier visits have used.                             *)
(* SpecVisitors    : entry and visitor operations side by side.            *)
(* SpecUtilities   : blobToDataURL and dataURLToBlob.                      *)
(* SpecGateway     : rollover of the cache generations and the fetch       *)
(*                   handlers of both workers.                             *)
(* SpecPhoto       : the photo screen of a visit: registered visitors,     *)
(*                   camera pictures, the name inputs.                     *)
(* SpecSubmit      : the feedback screen: canvas, submission, thank-you.   *)
(* SpecBrowse      : the browse screen: slides, navigation, delete-all.    *)
(* SpecAdmin       : the admin screen: the visitor form and its grid.      *)
(***************************************************************************)
EXTENDS Integers, Sequences, FiniteSets, TLC

(***************************************************************************)
(* Bounds                                                                  *)
(***************************************************************************)
MaxPending == 2
MaxCalls == 3
MaxRequests == 2
MaxInstalls == 2
MaxBytes == 4
MaxPicks == 2
MaxVisits == 2
MaxURLs == 2
MaxSubmits == 2

(***************************************************************************)
(* Program constants                                                       *)
(***************************************************************************)
DB_VERSION == 2
ENTRIES_STORE == "entries"
VISITORS_STORE == "visitors"

VARIABLES
    \* ---- js/storage.js and the IndexedDB engine ----
    db,          \* module variable `db`: 0 is null, otherwise a connection
    openReqs,    \* the indexedDB.open requests issued, in order, each with
                 \* the call that waits for it
    dbVersion,   \* version of the stored database, 0 before it exists
    stores,      \* object stores of the stored database
    indexes,     \* indices of the stored database, as <<store, index>>
    upgrades,    \* number of runs of onupgradeneeded
    entries,     \* the entries object store: id -> record
    tsIndex,     \* the 'timestamp' index: records [key, id] in index order
    keyGen,      \* key generator of the entries store (next key)
    txQueue,     \* transactions created and not yet finished, oldest first:
                 \* readonly ones run side by side, a readwrite one alone;
                 \* `known` records whether a saveEntry had resolved with the
                 \* transaction's id argument when the transaction was created,
                 \* `afterDelete` whether the promise settled last before it
                 \* was a deleteEntry of that id that resolved, no saveEntry
                 \* being in progress, `afterSave` the id a saveEntry resolved
                 \* with if that was the promise settled last before a
                 \* getAllEntries, nothing else being in progress (else 0),
                 \* `after` the write whose resolved promise was the one
                 \* settled last when a read was created, nothing else being
                 \* in progress (else NoWrite)
    txUndo,      \* contents to restore if the readwrite transaction at work
                 \* aborts
    last,        \* the promise settled most recently and its value
    visitors,    \* the visitors object store: id -> record
    vKeyGen,     \* key generator of the visitors store (next key)
    vQueue,      \* transactions on the visitors store not yet finished
    vUndo,       \* contents to restore if the readwrite visitors
                 \* transaction at work aborts
    addedAs,     \* [id, visitor] of every addVisitor that resolved
    \* ---- history of the run ----
    calls,       \* number of operations called so far
    handles,     \* the handles initDB resolved with
    savedAs,     \* [id, entry] of every saveEntry that resolved
    everDeleted, \* ids a delete or clear request has removed
    \* ---- the service workers and the CacheStorage of the origin ----
    caches,      \* the cache generations, in creation order (caches.keys())
    nextCid,     \* identity given to the next cache created
    wstate,      \* per worker: its place in the install/activate lifecycle
    toDelete,    \* per worker: the caches.delete calls of activate not
                 \* finished yet
    reqs,        \* the fetch events dispatched so far; `put` follows the
                 \* cache write of a request and what became of its entry
    installs,    \* number of install events dispatched so far
    \* ---- the conversion utilities of js/storage.js ----
    blob,        \* the Blob handed to blobToDataURL: its type and its bytes
    dataURL,     \* reader.result once blobToDataURL has resolved, else <<>>
    response,    \* the Blob dataURLToBlob has resolved with
    convStep     \* how far the conversion has come

\* ---- the page: js/app.js, js/camera.js, js/canvas.js ----
VARIABLES
    screen,      \* the screen that has the class 'active'
    waiters,     \* handlers awaiting a promise of an operation on the
                 \* entries store, in the order of the calls
    vWaiters,    \* the same for the visitors store
    loads,       \* loadBrowseScreen calls a handler has yet to make, behind
                 \* an open alert
    splashTimer, \* the timeout of init() that shows the home screen is
                 \* pending
    \* ---- photo screen ----
    cards,       \* the visitor cards of the pre-registered grid
    sectionShown,          \* the pre-registered section is not hidden
    photoNameInput,        \* value of #photo-name-input
    photoDesignationInput, \* value of #photo-designation-input
    currentVisitorName,
    currentVisitorDesignation,
    selectedVisitorId,     \* 0 for null
    currentPhotoURL,       \* <<>> for null
    objectURLs,            \* object URLs created and not revoked
    urlSeq,                \* number of object URLs created so far
    currentPhotoBlob,      \* camera.js; NoBlob for null
    conversions, \* processImage and dataURLToBlob calls not settled yet
    picks,       \* the selections made since the last reset, oldest first,
                 \* without the files that failed to load
    \* ---- feedback screen ----
    hasDrawn,    \* canvas.js
    isDrawing,   \* canvas.js
    pixels,      \* the bitmap of the canvas: blank, with strokes, or with
                 \* strokes the eraser has gone over
    eraserMode,  \* canvas.js
    points,      \* canvas.js: the length of the array `points`
    visitorName,           \* value of #visitor-name
    visitorDesignation,    \* value of #visitor-designation
    reads,       \* blobToDataURL calls of handleSubmit not settled yet
    visit,       \* number of times the feedback screen has been set up
    savedBy,     \* [visit, id] of every saveEntry of handleSubmit that
                 \* resolved
    timers,      \* pending timeouts of showThankYouScreen
    thankyou,    \* the images of the thank-you screen
    \* ---- browse screen ----
    browseEntries,
    browseCurrentIndex,
    browseIsAnimating,
    slides,      \* the slides of #browse-feedback-area in the order of
                 \* the document, with the slides that have left it and
                 \* have an onDone to run: `attached` while the slide is in
                 \* the document, `current` with the class
                 \* browse-slide-current, `moving` while its transition is
                 \* in progress, `listening` when its onDone is registered,
                 \* `exits` the place in `slides` of the currentSlide that
                 \* onDone is to remove, 0 when there is none in the document
    prompted,    \* the answers to the dialogs of the last handleDeleteAll
    \* ---- admin screen ----
    adminNameInput,        \* value of #admin-name-input
    adminDesignationInput, \* value of #admin-designation-input
    adminPhotoDataURL,     \* <<>> for null
    adminReads,  \* files of handleAdminPhotoSelect not loaded yet
    adminCards   \* the visitor cards of the admin grid

pageVars == <<screen, waiters, vWaiters, loads>>

browseVars == <<browseEntries, browseCurrentIndex, browseIsAnimating, slides,
                prompted>>

adminVars == <<adminNameInput, adminDesignationInput, adminPhotoDataURL,
               adminReads, adminCards>>

photoVars == <<cards, sectionShown, photoNameInput, photoDesignationInput,
               currentVisitorName, currentVisitorDesignation,
               selectedVisitorId, currentPhotoURL, objectURLs, urlSeq,
               currentPhotoBlob, conversions, picks>>

canvasVars == <<hasDrawn, isDrawing, pixels, eraserMode, points>>

feedbackVars == <<visitorName, visitorDesignation, reads, visit, savedBy,
                  timers, thankyou>>

visitVars == <<photoVars, canvasVars, feedbackVars>>

uiVars == <<pageVars, visitVars, browseVars, adminVars, splashTimer>>

visitorVars == <<visitors, vKeyGen, vQueue, vUndo, addedAs>>

storeVars == <<db, openReqs, dbVersion, stores, indexes, upgrades, entries,
               tsIndex, keyGen, txQueue, txUndo, last, calls, handles,
               savedAs, everDeleted, visitorVars>>

gatewayVars == <<caches, nextCid, wstate, toDelete, reqs, installs>>

utilVars == <<blob, dataURL, response, convStep>>

vars == <<storeVars, gatewayVars, utilVars, uiVars>>

(***************************************************************************)
(* Values                                                                  *)
(***************************************************************************)
UNDEFINED == "undefined"
NULLBLOB == "null"

\* Entry objects handed to saveEntry(entry)
\* The second one carries a timestamp and an id of the caller's own; a
\* property the object does not have reads <<>> (timestamp) or 0 (id).
EntryInputs ==
    { [photo |-> NULLBLOB, signature |-> "sigA", name |-> "Jane Doe",
       designation |-> "Engineer", timestamp |-> <<>>, id |-> 0],
      [photo |-> "photoB", signature |-> "sigB", name |-> UNDEFINED,
       designation |-> "", timestamp |-> <<0, 1>>, id |-> 7] }

\* Visitor objects handed to addVisitor(visitor)
\* (with a createdAt of the caller's own)
VisitorInputs ==
    { [photo |-> "photoV", name |-> "Ann Lee", designation |-> UNDEFINED,
       createdAt |-> <<0, 1>>] }

NoVisitor == [photo |-> NULLBLOB, name |-> UNDEFINED, designation |-> UNDEFINED,
              createdAt |-> <<>>]

NoEntry == [photo |-> NULLBLOB, signature |-> NULLBLOB, name |-> UNDEFINED,
            designation |-> UNDEFINED, timestamp |-> <<>>, id |-> 0]

\* The value `undefined` returned by store.get for a missing key
NoRecord == [id |-> 0, photo |-> NULLBLOB, signature |-> NULLBLOB,
             name |-> UNDEFINED, designation |-> UNDEFINED,
             timestamp |-> <<>>]

\* Instants new Date() may read from the wall clock, which can be set back:
\* on both sides of a carry of the last digit
ClockValues == {9, 10}

ReadOps == {"getAllEntries", "getEntry", "getEntryCount"}
WriteOps == {"saveEntry", "deleteEntry", "deleteAllEntries"}
VisitorReadOps == {"getAllVisitors", "getVisitor"}
VisitorWriteOps == {"addVisitor", "deleteVisitor"}
VisitorOps == VisitorReadOps \cup VisitorWriteOps
Ops == {"initDB"} \cup ReadOps \cup WriteOps \cup VisitorOps

(***************************************************************************)
(* Pure helpers                                                            *)
(***************************************************************************)
\* x || '' of JavaScript on a string or undefined
OrEmpty(x) == IF x = UNDEFINED \/ x = "" THEN "" ELSE x

\* new Date().toISOString(): fixed-width, zero-padded decimal fields.  Only
\* the two fastest-changing digits are kept; the others are constant over
\* the modelled window.
toISOString(t) == << t \div 10, t % 10 >>

\* IndexedDB key comparison of two strings: code unit by code unit, a proper
\* prefix is smaller.
RECURSIVE KeyLess(_, _)
KeyLess(a, b) ==
    IF Len(a) = 0 THEN Len(b) > 0
    ELSE IF Len(b) = 0 THEN FALSE
    ELSE IF Head(a) # Head(b) THEN Head(a) < Head(b)
    ELSE KeyLess(Tail(a), Tail(b))

\* Order of the records of an index: by key, then by primary key
IndexLess(r, s) == KeyLess(r.key, s.key) \/ (r.key = s.key /\ r.id < s.id)

\* Position at which a new index record is inserted
RECURSIVE InsertPos(_, _, _)
InsertPos(idx, r, i) ==
    IF i > Len(idx) THEN i
    ELSE IF IndexLess(r, idx[i]) THEN i
    ELSE InsertPos(idx, r, i + 1)

IndexInsert(idx, r) ==
    LET i == InsertPos(idx, r, 1)
    IN  SubSeq(idx, 1, i - 1) \o <<r>> \o SubSeq(idx, i, Len(idx))

RECURSIVE IndexRemove(_, _)
IndexRemove(idx, id) ==
    IF Len(idx) = 0 THEN <<>>
    ELSE IF Head(idx).id = id THEN IndexRemove(Tail(idx), id)
    ELSE <<Head(idx)>> \o IndexRemove(Tail(idx), id)

\* index.openCursor(null, 'next'): from the first index record forwards
RECURSIVE CursorNext(_, _, _)
CursorNext(store, idx, pos) ==
    IF pos > Len(idx) THEN <<>>
    ELSE <<store[idx[pos].id]>> \o CursorNext(store, idx, pos + 1)

\* index.openCursor(null, 'prev'): from the last index record backwards,
\* cursor.value is the store record the index record refers to
RECURSIVE CursorPrev(_, _, _)
CursorPrev(store, idx, pos) ==
    IF pos = 0 THEN <<>>
    ELSE <<store[idx[pos].id]>> \o CursorPrev(store, idx, pos - 1)

\* The wrong direction, as a list
OpenCursorAscending(store, idx) == CursorNext(store, idx, 1)

\* getAllEntries: the cursor loop over index.openCursor(null, 'prev')
OpenCursorDescending(store, idx) == CursorPrev(store, idx, Len(idx))

\* An entryData that kept the timestamp found in the argument
EntryDataOfCaller(entry, t) ==
    [photo |-> entry.photo, signature |-> entry.signature,
     name |-> OrEmpty(entry.name), designation |-> OrEmpty(entry.designation),
     timestamp |-> IF entry.timestamp = <<>> THEN toISOString(t)
                   ELSE entry.timestamp]

\* entryData built by saveEntry: the four fields copied from the argument
\* and the timestamp read from the clock; nothing else of the argument
EntryData(entry, t) ==
    [photo |-> entry.photo, signature |-> entry.signature,
     name |-> OrEmpty(entry.name), designation |-> OrEmpty(entry.designation),
     timestamp |-> toISOString(t)]

\* The record stored by store.add(entryData) under the generated key
StoredRecord(data, id) ==
    [id |-> id, photo |-> data.photo, signature |-> data.signature,
     name |-> data.name, designation |-> data.designation,
     timestamp |-> data.timestamp]

NoData == EntryData(NoEntry, 0)

\* visitorData built by addVisitor
VisitorData(visitor, t) ==
    [photo |-> visitor.photo, name |-> visitor.name,
     designation |-> OrEmpty(visitor.designation),
     createdAt |-> toISOString(t)]

\* The record stored by store.add(visitorData) under the generated key
StoredVisitor(data, id) ==
    [id |-> id, photo |-> data.photo, name |-> data.name,
     designation |-> data.designation, createdAt |-> data.createdAt]

NoVisitorData == VisitorData(NoVisitor, 0)

\* A transaction on the visitors store with its single request; `afterAdd`
\* records whether the promise settled last before a getVisitor(id) was
\* called was an addVisitor that resolved with id, no other request on the
\* visitors store being in progress; `latest` marks the transaction whose
\* request was answered last
VTxn(kind, id, visitor, data, afterAdd) ==
    [kind |-> kind, id |-> id, visitor |-> visitor, data |-> data,
     afterAdd |-> afterAdd, done |-> FALSE, latest |-> FALSE]

NoVUndo == [visitors |-> <<>>, vKeyGen |-> 0]

\* Nothing to roll back: no readwrite transaction is between its request and
\* its commit
NoUndo == [entries |-> <<>>, tsIndex |-> <<>>, keyGen |-> 0]

\* No write has resolved just before
NoWrite == [op |-> "none", id |-> 0]

\* A transaction with its single request; `got` is the array the cursor
\* loop of getAllEntries has filled so far, `latest` marks the transaction
\* whose request was answered last
Txn(kind, id, entry, data, known, afterDelete, afterSave, after) ==
    [kind |-> kind, id |-> id, entry |-> entry, data |-> data,
     known |-> known, afterDelete |-> afterDelete, afterSave |-> afterSave,
     after |-> after, done |-> FALSE, got |-> <<>>, latest |-> FALSE]

\* The sequence without its i-th element
Remove(seq, i) == SubSeq(seq, 1, i - 1) \o SubSeq(seq, i + 1, Len(seq))

\* The engine starts a transaction once no live transaction created before
\* it has an overlapping scope and a conflicting mode: readonly
\* transactions on a store run side by side, a readwrite one runs alone
CanRun(q, i, writes) ==
    /\ q[i].kind \in writes => i = 1
    /\ \A j \in 1..(i - 1) : q[j].kind \notin writes

\* The request of transaction i is answered: its promise settles
Settled(q, i) ==
    [j \in 1..Len(q) |->
        IF j = i THEN [q[j] EXCEPT !.done = TRUE, !.latest = TRUE]
        ELSE [q[j] EXCEPT !.latest = FALSE]]

\* No request of the queue is the one answered last
Unmarked(q) == [j \in 1..Len(q) |-> [q[j] EXCEPT !.latest = FALSE]]

\* The place among the waiters of the handler that awaits the request of
\* transaction i: the handlers wait in the order of their calls
WaiterOf(q, i) == Cardinality({j \in 1..i : ~q[j].done})

\* A settled promise: the operation, resolved or rejected, and the value
Result(op, ok, num, rec, list) ==
    [op |-> op, ok |-> ok, num |-> num, rec |-> rec, list |-> list]

(***************************************************************************)
(* Initial state: a fresh origin, nothing opened, nothing stored           *)
(***************************************************************************)
\* The module as the page has loaded it: db is null, nothing called yet
InitPage ==
    /\ db = 0
    /\ openReqs = <<>>
    /\ upgrades = 0
    /\ txQueue = <<>>
    /\ txUndo = NoUndo
    /\ last = Result("none", FALSE, 0, NoRecord, <<>>)
    /\ calls = 0
    /\ handles = {}
    /\ savedAs = {}
    /\ everDeleted = {}
    /\ vQueue = <<>>
    /\ vUndo = NoVUndo
    /\ addedAs = {}

\* The database earlier visits have left on the device: its schema is that
\* of no visit at all ("none"), of a deployment that knew the entries store
\* only ("entries"), or of this one ("both"); n entries and m visitors are
\* stored, written by saveEntry and addVisitor
StoredDatabase(schema, n, m) ==
    /\ dbVersion = (IF schema = "none" THEN 0
                    ELSE IF schema = "entries" THEN 1 ELSE DB_VERSION)
    /\ stores = (IF schema = "none" THEN {}
                 ELSE IF schema = "entries" THEN {ENTRIES_STORE}
                 ELSE {ENTRIES_STORE, VISITORS_STORE})
    /\ indexes = (IF schema = "none" THEN {}
                  ELSE IF schema = "entries"
                  THEN {<<ENTRIES_STORE, "timestamp">>}
                  ELSE {<<ENTRIES_STORE, "timestamp">>,
                        <<VISITORS_STORE, "name">>})
    /\ entries = [k \in 1..n |->
                     StoredRecord(EntryData(
                         [photo |-> NULLBLOB, signature |-> "sigA",
                          name |-> "Jane Doe", designation |-> "Engineer",
                          timestamp |-> <<>>, id |-> 0],
                         9), k)]
    /\ tsIndex = [k \in 1..n |-> [key |-> toISOString(9), id |-> k]]
    /\ keyGen = n + 1
    /\ visitors = [k \in 1..m |->
                      StoredVisitor(VisitorData(
                          [photo |-> "photoV", name |-> "Ann Lee",
                           designation |-> UNDEFINED, createdAt |-> <<>>],
                          9), k)]
    /\ vKeyGen = m + 1

InitStore == InitPage /\ StoredDatabase("none", 0, 0)

\* A returning visit: any of the schemas, with or without stored records
InitStored ==
    /\ InitPage
    /\ \E schema \in {"none", "entries", "both"} :
           \E n \in (IF schema = "none" THEN {0} ELSE {0, 1}) :
               \E m \in (IF schema = "both" THEN {0, 1} ELSE {0}) :
                   StoredDatabase(schema, n, m)

(***************************************************************************)
(* js/storage.js: one action per step of an operation                      *)
(***************************************************************************)
\* A storage operation runs in the page: the service workers are not involved
GatewayIdle == UNCHANGED gatewayVars

\* No conversion between Blob and data URL is part of a storage operation
\* or of a step of a service worker
UtilitiesIdle == UNCHANGED utilVars

\* An operation on the entries store: its transaction has the scope
\* [ENTRIES_STORE], the visitors store is out of its reach
VisitorsIdle == UNCHANGED visitorVars

\* The timeout init() has set neither fires nor is cleared: no handler
\* but its own callback touches it
SplashIdle == UNCHANGED splashTimer

(***************************************************************************)
(* js/app.js: what the handlers do once an awaited storage promise settles *)
(***************************************************************************)
\* No handler of the page runs in this step
UIIdle == UNCHANGED uiVars

\* A null URL, a null data URL
NullURL == <<>>

\* The text of an input element, as the sequence of its pieces; a piece of
\* white space is " "
NoText == <<>>

\* String.prototype.trim: white space at both ends is dropped
RECURSIVE TrimStart(_)
TrimStart(t) ==
    IF t # <<>> /\ Head(t) = " " THEN TrimStart(Tail(t)) ELSE t

RECURSIVE TrimEnd(_)
TrimEnd(t) ==
    IF t # <<>> /\ t[Len(t)] = " " THEN TrimEnd(SubSeq(t, 1, Len(t) - 1))
    ELSE t

RECURSIVE Join(_)
Join(t) == IF t = <<>> THEN "" ELSE Head(t) \o Join(Tail(t))

Trim(t) == Join(TrimEnd(TrimStart(t)))

\* input.value = s
ValueOf(s) == IF s = "" THEN NoText ELSE <<s>>

\* The answer to a prompt that was cancelled
CancelPrompt == "<null>"

\* The browse and the admin screen as the page has loaded them
InitOtherScreens ==
    /\ loads = <<>>
    /\ browseEntries = <<>>
    /\ browseCurrentIndex = 0
    /\ browseIsAnimating = FALSE
    /\ slides = <<>>
    /\ prompted = [password |-> CancelPrompt, confirm |-> FALSE]
    /\ adminNameInput = NoText
    /\ adminDesignationInput = NoText
    /\ adminPhotoDataURL = NullURL
    /\ adminReads = <<>>
    /\ adminCards = <<>>

\* The initial state of the page: init() has run, the splash screen is
\* shown and the timeout that is to show the home screen is pending;
\* nothing selected, nothing drawn
InitUI ==
    /\ screen = "splash"
    /\ splashTimer = TRUE
    /\ waiters = <<>>
    /\ vWaiters = <<>>
    /\ InitOtherScreens
    /\ cards = <<>>
    /\ sectionShown = FALSE
    /\ photoNameInput = NoText
    /\ photoDesignationInput = NoText
    /\ currentVisitorName = ""
    /\ currentVisitorDesignation = ""
    /\ selectedVisitorId = 0
    /\ currentPhotoURL = NullURL
    /\ objectURLs = {}
    /\ urlSeq = 0
    /\ currentPhotoBlob = [type |-> "", bytes |-> <<>>]
    /\ conversions = <<>>
    /\ picks = <<>>
    /\ hasDrawn = FALSE
    /\ isDrawing = FALSE
    /\ pixels = "blank"
    /\ eraserMode = FALSE
    /\ points = 0
    /\ visitorName = NoText
    /\ visitorDesignation = NoText
    /\ reads = <<>>
    /\ visit = 0
    /\ savedBy = {}
    /\ timers = 0
    /\ thankyou = [photo |-> NullURL, signature |-> ""]

\* showThankYouScreen(photoDataURL, signatureDataURL), run by handleSubmit
\* once `await saveEntry(...)` has resolved with `id`
showThankYouScreen(w, id) ==
    /\ thankyou' = [photo |-> w.photo, signature |-> w.signature]
    /\ screen' = "thankyou"
    /\ timers' = timers + 1
    /\ savedBy' = savedBy \cup {[visit |-> w.visit, id |-> id]}
    /\ UNCHANGED <<loads, photoVars, canvasVars, visitorName,
                   visitorDesignation, reads, visit, browseVars, adminVars>>

\* A catch block that logs and alerts, or a rejection nothing handles
NothingElse ==
    UNCHANGED <<screen, loads, visitVars, browseVars, adminVars>>

\* The catch block of handleSubmit: console.error and alert
SubmitCatch == NothingElse

\* loadPreregisteredVisitors after `await getAllVisitors()`, then
\* showScreen('photo') of the click listener of #btn-new-feedback
ShowPhotoScreen(res) ==
    /\ IF res.ok /\ Len(res.list) > 0
       THEN /\ sectionShown' = TRUE
            /\ cards' = res.list
       ELSE /\ sectionShown' = FALSE
            /\ cards' = cards
    /\ screen' = "photo"
    /\ UNCHANGED <<photoNameInput, photoDesignationInput, currentVisitorName,
                   currentVisitorDesignation, selectedVisitorId,
                   currentPhotoURL, objectURLs, urlSeq, currentPhotoBlob,
                   conversions, picks, canvasVars, feedbackVars, loads,
                   browseVars, adminVars>>

\* The slide loadBrowseScreen creates for entries[0]
InitialSlide ==
    [attached |-> TRUE, current |-> TRUE, moving |-> FALSE,
     listening |-> FALSE, exits |-> 0]

\* loadBrowseScreen after `await getAllEntries()`: the list is replaced, the
\* first slide is appended without animation unless the list is empty
BrowseLoaded(res) ==
    /\ browseEntries' = res.list
    /\ browseCurrentIndex' = 0
    /\ browseIsAnimating' = FALSE
    /\ slides' = IF Len(res.list) = 0 THEN slides
                 ELSE Append(slides, InitialSlide)
    /\ UNCHANGED <<screen, loads, prompted, visitVars, adminVars>>

\* A handler goes on to call a load function once the alert it has raised
\* is dismissed: handleDeleteAll
ThenLoad(which) ==
    /\ loads' = Append(loads, which)
    /\ UNCHANGED <<screen, visitVars, browseVars>>

\* resetAdminForm()
resetAdminForm ==
    /\ adminPhotoDataURL' = NullURL
    /\ adminNameInput' = NoText
    /\ adminDesignationInput' = NoText

\* loadAdminVisitors after `await getAllVisitors()`: the grid is rebuilt,
\* or hidden when there is no visitor
AdminLoaded(res) ==
    /\ adminCards' = res.list
    /\ UNCHANGED <<screen, loads, visitVars, browseVars, adminNameInput,
                   adminDesignationInput, adminPhotoDataURL, adminReads>>

\* The waiter of a load function or of a handler of these screens
AwaitedBy(h) ==
    [handler |-> h, photo |-> NullURL, signature |-> "", visit |-> 0]

\* The reaction of the handler that awaited the promise settled with `res`
Reaction(w, res) ==
    CASE w.handler = "handleSubmit" ->
             IF res.ok THEN showThankYouScreen(w, res.num) ELSE SubmitCatch
      [] w.handler = "loadPreregisteredVisitors" -> ShowPhotoScreen(res)
      [] w.handler = "loadBrowseScreen" ->
             IF res.ok THEN BrowseLoaded(res) ELSE NothingElse
      [] w.handler = "handleDeleteAll" ->
             IF res.ok THEN ThenLoad("browse") /\ UNCHANGED adminVars
             ELSE NothingElse
      [] w.handler = "handleAddVisitor" ->
             IF res.ok
             THEN /\ resetAdminForm
                  /\ UNCHANGED <<screen, loads, visitVars, browseVars,
                                 adminReads, adminCards>>
             ELSE NothingElse
      [] w.handler \in {"deleteVisitor", "handleExportJSON"} -> NothingElse
      [] w.handler = "loadAdminVisitors" ->
             IF res.ok THEN AdminLoaded(res) ELSE NothingElse

\* The promise of the request of entries transaction i settles: the
\* handler that awaits it, if there is one, goes on
Resume(i) ==
    IF waiters = <<>> THEN UIIdle
    ELSE LET k == WaiterOf(txQueue, i)
         IN  /\ Reaction(waiters[k], last')
             /\ waiters' = Remove(waiters, k)
             /\ vWaiters' = vWaiters

\* The handlers of the admin screen that call loadAdminVisitors() right
\* after the write they awaited has resolved
Reloads(w, res) ==
    /\ w.handler \in {"handleAddVisitor", "deleteVisitor"}
    /\ res.ok

\* The same for visitors transaction i, q being the queue with the request
\* answered.  A handler that goes on to loadAdminVisitors() calls
\* getAllVisitors in the same job: db is set, so the readonly transaction
\* is created before the one just answered has committed.
VisitorResume(i, q) ==
    IF vWaiters = <<>>
    THEN /\ vQueue' = q
         /\ calls' = calls
         /\ UIIdle
    ELSE LET k == WaiterOf(vQueue, i)
             w == vWaiters[k]
         IN  /\ Reaction(w, last')
             /\ waiters' = waiters
             /\ IF Reloads(w, last')
                THEN /\ vQueue' = Append(q, VTxn("getAllVisitors", 0,
                                      NoVisitor, NoVisitorData, FALSE))
                     /\ calls' = calls + 1
                     /\ vWaiters' = Append(Remove(vWaiters, k),
                                           AwaitedBy("loadAdminVisitors"))
                ELSE /\ vQueue' = q
                     /\ calls' = calls
                     /\ vWaiters' = Remove(vWaiters, k)

\* The open requests the engine has not answered: waiting, or with their
\* upgrade transaction under way
PendingOpens ==
    {i \in 1..Len(openReqs) : openReqs[i].state \in {"pending", "upgrading"}}
FirstPendingOpen == CHOOSE i \in PendingOpens : \A j \in PendingOpens : i <= j

\* No upgrade transaction to roll back
NoSchema == [dbVersion |-> 0, stores |-> {}, indexes |-> {}]

\* Operations called and not settled yet
Outstanding ==
    Cardinality(PendingOpens)
      + Cardinality({i \in 1..Len(txQueue) : ~txQueue[i].done})
      + Cardinality({i \in 1..Len(vQueue) : ~vQueue[i].done})

\* What follows `await initDB()` once it resolved with handle h: initDB's
\* own caller gets h; every other operation opens its transaction on the
\* module variable db and issues its request.
Continue(op, arg, e, h) ==
    /\ handles' = handles \cup {h}
    /\ IF op = "initDB"
       THEN /\ last' = Result("initDB", TRUE, h, NoRecord, <<>>)
            /\ txQueue' = txQueue
            /\ vQueue' = vQueue
       ELSE IF op \in VisitorOps
       THEN /\ \E t \in (IF op = "addVisitor" THEN ClockValues ELSE {0}) :
                 vQueue' = Append(vQueue,
                     VTxn(op, arg, e,
                          IF op = "addVisitor" THEN VisitorData(e, t)
                          ELSE NoVisitorData,
                          /\ op = "getVisitor"
                          /\ last.op = "addVisitor"
                          /\ last.ok
                          /\ last.num = arg
                          /\ \A i \in 1..Len(vQueue) : vQueue[i].done))
            /\ txQueue' = txQueue
            /\ last' = last
       ELSE /\ vQueue' = vQueue
            /\ \E t \in (IF op = "saveEntry" THEN ClockValues ELSE {0}) :
                 txQueue' = Append(txQueue,
                     Txn(op, arg, e,
                         IF op = "saveEntry" THEN EntryData(e, t) ELSE NoData,
                         \E s \in savedAs : s.id = arg,
                         /\ op \in {"getEntry", "deleteEntry"}
                         /\ last.op = "deleteEntry"
                         /\ last.ok
                         /\ last.num = arg
                         /\ \A i \in 1..Len(txQueue) :
                                txQueue[i].kind # "saveEntry",
                         IF /\ op = "getAllEntries"
                            /\ last.op = "saveEntry"
                            /\ last.ok
                            /\ PendingOpens = {}
                            /\ \A i \in 1..Len(txQueue) : txQueue[i].done
                         THEN last.num ELSE 0,
                         IF /\ op \in ReadOps
                            /\ last.op \in WriteOps
                            /\ last.ok
                            /\ PendingOpens = {}
                            /\ \A i \in 1..Len(txQueue) : txQueue[i].done
                         THEN [op |-> last.op, id |-> last.num]
                         ELSE NoWrite))
            /\ last' = last

\* An operation is called; the executor of initDB runs at once.  With db
\* set the promise is already resolved and the body continues in the next
\* microtask; otherwise a new open request is issued.
Call(op, arg, e) ==
    /\ calls < MaxCalls
    /\ Outstanding < MaxPending
    /\ calls' = calls + 1
    /\ IF db # 0
       THEN /\ Continue(op, arg, e, db)
            /\ openReqs' = openReqs
       ELSE /\ openReqs' = Append(openReqs,
                   [state |-> "pending", op |-> op, arg |-> arg, entry |-> e,
                    undo |-> NoSchema])
            /\ UNCHANGED <<txQueue, vQueue, last, handles>>
    /\ UNCHANGED <<db, dbVersion, stores, indexes, upgrades, entries, tsIndex,
                   keyGen, txUndo, savedAs, everDeleted, visitors, vKeyGen,
                   vUndo, addedAs>>
    /\ GatewayIdle
    /\ UtilitiesIdle
    /\ SplashIdle

CallInitDB == Call("initDB", 0, NoEntry) /\ UIIdle
CallSaveEntry(e) == Call("saveEntry", 0, e) /\ UIIdle
CallGetAllEntries == Call("getAllEntries", 0, NoEntry) /\ UIIdle
CallGetEntry(id) == Call("getEntry", id, NoEntry) /\ UIIdle
CallDeleteEntry(id) == Call("deleteEntry", id, NoEntry) /\ UIIdle
CallGetEntryCount == Call("getEntryCount", 0, NoEntry) /\ UIIdle
CallDeleteAllEntries == Call("deleteAllEntries", 0, NoEntry) /\ UIIdle
CallAddVisitor(v) == Call("addVisitor", 0, v) /\ UIIdle
CallGetAllVisitors == Call("getAllVisitors", 0, NoVisitor) /\ UIIdle
CallGetVisitor(id) == Call("getVisitor", id, NoVisitor) /\ UIIdle
CallDeleteVisitor(id) == Call("deleteVisitor", id, NoVisitor) /\ UIIdle

\* An open request the engine has answered; the call that waited has gone on
Answered(state) ==
    [state |-> state, op |-> "none", arg |-> 0, entry |-> NoEntry,
     undo |-> NoSchema]

\* An upgrade routine of the deployment that knew the entries store only
UpgradeEntriesOnly(have) == have \cup {ENTRIES_STORE}

\* request.onupgradeneeded: creates the stores and indices that are missing
UpgradeStores(have) == have \cup {ENTRIES_STORE, VISITORS_STORE}

UpgradeIndexes(have, idxs) ==
    idxs \cup (IF ENTRIES_STORE \in have THEN {}
               ELSE {<<ENTRIES_STORE, "timestamp">>})
         \cup (IF VISITORS_STORE \in have THEN {}
               ELSE {<<VISITORS_STORE, "name">>})

\* An engine that fired upgradeneeded on every open request
AlwaysUpgrade(stored) == TRUE

\* indexedDB.open(DB_NAME, DB_VERSION): the engine fires upgradeneeded when
\* the version asked for is above the stored one
NeedsUpgrade(stored) == stored < DB_VERSION

\* The engine fires upgradeneeded on the oldest open request, the stored
\* version being older than DB_VERSION: request.onupgradeneeded creates what
\* is missing inside the versionchange transaction.  The page is back in
\* the event loop before success or error follows.
UpgradeNeeded ==
    /\ PendingOpens # {}
    /\ LET i == FirstPendingOpen
       IN  /\ openReqs[i].state = "pending"
           /\ NeedsUpgrade(dbVersion)
           /\ openReqs' = [openReqs EXCEPT
                  ![i].state = "upgrading",
                  ![i].undo = [dbVersion |-> dbVersion, stores |-> stores,
                               indexes |-> indexes]]
    /\ dbVersion' = DB_VERSION
    /\ upgrades' = upgrades + 1
    /\ stores' = UpgradeStores(stores)
    /\ indexes' = UpgradeIndexes(stores, indexes)
    /\ UNCHANGED <<db, entries, tsIndex, keyGen, txQueue, txUndo, last, calls,
                   handles, savedAs, everDeleted>>
    /\ VisitorsIdle
    /\ GatewayIdle
    /\ UtilitiesIdle
    /\ SplashIdle
    /\ UIIdle

\* The engine answers the oldest open request, its upgrade committed or
\* none needed: request.onsuccess assigns db and resolves.
OpenSuccess ==
    /\ PendingOpens # {}
    /\ LET i == FirstPendingOpen
           r == openReqs[i]
       IN  /\ r.state = "pending" => ~NeedsUpgrade(dbVersion)
           /\ openReqs' = [openReqs EXCEPT ![i] = Answered("success")]
           /\ db' = i
           /\ Continue(r.op, r.arg, r.entry, i)
    /\ UNCHANGED <<dbVersion, upgrades, stores, indexes, entries, tsIndex,
                   keyGen, txUndo, calls, savedAs, everDeleted, visitors,
                   vKeyGen, vUndo, addedAs>>
    /\ GatewayIdle
    /\ UtilitiesIdle
    /\ SplashIdle
    /\ UIIdle

\* What an open request that fails leaves of the schema: an upgrade
\* transaction under way is aborted and rolled back
RolledBack(r) ==
    IF r.state = "upgrading"
    THEN /\ dbVersion' = r.undo.dbVersion
         /\ stores' = r.undo.stores
         /\ indexes' = r.undo.indexes
    ELSE UNCHANGED <<dbVersion, stores, indexes>>

\* An onerror handler that kept the connection of the failed request
OpenErrorSetsHandle ==
    /\ PendingOpens # {}
    /\ LET i == FirstPendingOpen
       IN  /\ openReqs' = [openReqs EXCEPT ![i] = Answered("error")]
           /\ last' = Result(openReqs[i].op, FALSE, 0, NoRecord, <<>>)
           /\ db' = i
           /\ RolledBack(openReqs[i])
    /\ UNCHANGED <<upgrades, entries, tsIndex,
                   keyGen, txQueue, txUndo, calls, handles,
                   savedAs, everDeleted>>
    /\ GatewayIdle
    /\ UtilitiesIdle
    /\ SplashIdle
    /\ UIIdle
    /\ VisitorsIdle

\* request.onerror of an open request, before or after its upgrade ran:
\* initDB rejects, db stays as it was
OpenError ==
    /\ PendingOpens # {}
    /\ LET i == FirstPendingOpen
       IN  /\ openReqs' = [openReqs EXCEPT ![i] = Answered("error")]
           /\ last' = Result(openReqs[i].op, FALSE, 0, NoRecord, <<>>)
           /\ RolledBack(openReqs[i])
    /\ UNCHANGED <<db, upgrades, entries, tsIndex,
                   keyGen, txQueue, txUndo, calls, handles,
                   savedAs, everDeleted>>
    /\ GatewayIdle
    /\ UtilitiesIdle
    /\ SplashIdle
    /\ UIIdle
    /\ VisitorsIdle

StoreContents == [entries |-> entries, tsIndex |-> tsIndex, keyGen |-> keyGen]

\* The first transaction of the entries store.  A readwrite transaction
\* runs only as the first one: those before it have committed.
ActiveTxn == txQueue[1]

\* The readwrite transaction of this kind is running, its request not
\* answered yet
CanExec(kind) ==
    /\ Len(txQueue) > 0
    /\ ~ActiveTxn.done
    /\ ActiveTxn.kind = kind

\* The running transactions of the entries store with a request of this
\* kind to be answered
Running(kind) ==
    {i \in 1..Len(txQueue) : /\ CanRun(txQueue, i, WriteOps)
                             /\ ~txQueue[i].done
                             /\ txQueue[i].kind = kind}

MarkDone == txQueue' = Settled(txQueue, 1)

\* store.add(entryData) succeeds: request.onsuccess resolves with the key
ExecSaveEntry ==
    /\ CanExec("saveEntry")
    /\ LET t == ActiveTxn
           id == keyGen
           rec == StoredRecord(t.data, id)
       IN  /\ entries' = [k \in DOMAIN entries \cup {id} |->
                             IF k = id THEN rec ELSE entries[k]]
           /\ tsIndex' = IndexInsert(tsIndex, [key |-> rec.timestamp, id |-> id])
           /\ keyGen' = keyGen + 1
           /\ last' = Result("saveEntry", TRUE, id, NoRecord, <<>>)
           /\ savedAs' = savedAs \cup {[id |-> id, entry |-> t.entry]}
    /\ txUndo' = StoreContents
    /\ MarkDone
    /\ UNCHANGED <<db, openReqs, dbVersion, stores, indexes, upgrades,
                   calls, handles, everDeleted>>
    /\ GatewayIdle
    /\ UtilitiesIdle
    /\ SplashIdle
    /\ Resume(1)
    /\ VisitorsIdle

\* A read of the entries store leaves everything but its transaction and
\* the settled promise alone
ReadFrame ==
    /\ UNCHANGED <<db, openReqs, dbVersion, stores, indexes, upgrades, entries,
                   tsIndex, keyGen, txUndo, calls, handles,
                   savedAs, everDeleted>>
    /\ GatewayIdle
    /\ UtilitiesIdle
    /\ SplashIdle
    /\ VisitorsIdle

\* request.onsuccess of index.openCursor(null, 'prev') in getAllEntries, one
\* event per record and a last one: with a cursor its value is pushed and
\* cursor.continue() called, without one resolve(entries).  The store
\* cannot change while the readonly transaction runs.
ExecGetAllEntries ==
    \E i \in Running("getAllEntries") :
        LET t == txQueue[i]
            walk == OpenCursorDescending(entries, tsIndex)
        IN  /\ IF Len(t.got) < Len(walk)
               THEN /\ txQueue' = [txQueue EXCEPT
                           ![i].got = Append(@, walk[Len(@) + 1])]
                    /\ last' = last
                    /\ UIIdle
               ELSE /\ last' = Result("getAllEntries", TRUE, 0, NoRecord,
                                      t.got)
                    /\ txQueue' = Settled(txQueue, i)
                    /\ Resume(i)
            /\ ReadFrame

\* A getEntry that rejected when no record has the key
ExecGetEntryOrReject ==
    \E i \in Running("getEntry") :
        LET t == txQueue[i]
        IN  /\ last' = Result("getEntry", t.id \in DOMAIN entries, t.id,
                         IF t.id \in DOMAIN entries THEN entries[t.id]
                         ELSE NoRecord,
                         <<>>)
            /\ txQueue' = Settled(txQueue, i)
            /\ Resume(i)
            /\ ReadFrame

\* store.get(id) succeeds: resolve(request.result), undefined if missing
ExecGetEntry ==
    \E i \in Running("getEntry") :
        LET t == txQueue[i]
        IN  /\ last' = Result("getEntry", TRUE, t.id,
                         IF t.id \in DOMAIN entries THEN entries[t.id]
                         ELSE NoRecord,
                         <<>>)
            /\ txQueue' = Settled(txQueue, i)
            /\ Resume(i)
            /\ ReadFrame

\* store.delete(id) succeeds, also when no record has that key
ExecDeleteEntry ==
    /\ CanExec("deleteEntry")
    /\ LET t == ActiveTxn
       IN  /\ entries' = [k \in DOMAIN entries \ {t.id} |-> entries[k]]
           /\ tsIndex' = IndexRemove(tsIndex, t.id)
           /\ everDeleted' = everDeleted \cup {t.id}
           /\ last' = Result("deleteEntry", TRUE, t.id, NoRecord, <<>>)
    /\ txUndo' = StoreContents
    /\ MarkDone
    /\ UNCHANGED <<db, openReqs, dbVersion, stores, indexes, upgrades, keyGen,
                   calls, handles, savedAs>>
    /\ GatewayIdle
    /\ UtilitiesIdle
    /\ SplashIdle
    /\ Resume(1)
    /\ VisitorsIdle

\* A count of the keys ever generated instead of the records stored
ExecCountGenerated ==
    \E i \in Running("getEntryCount") :
        /\ last' = Result("getEntryCount", TRUE, keyGen - 1, NoRecord, <<>>)
        /\ txQueue' = Settled(txQueue, i)
        /\ Resume(i)
        /\ ReadFrame

\* store.count() succeeds
ExecGetEntryCount ==
    \E i \in Running("getEntryCount") :
        /\ last' = Result("getEntryCount", TRUE, Cardinality(DOMAIN entries),
                          NoRecord, <<>>)
        /\ txQueue' = Settled(txQueue, i)
        /\ Resume(i)
        /\ ReadFrame

\* store.clear() succeeds; the key generator is not reset by clear
ExecDeleteAllEntries ==
    /\ CanExec("deleteAllEntries")
    /\ entries' = [k \in {} |-> NoRecord]
    /\ tsIndex' = <<>>
    /\ everDeleted' = everDeleted \cup DOMAIN entries
    /\ last' = Result("deleteAllEntries", TRUE, 0, NoRecord, <<>>)
    /\ txUndo' = StoreContents
    /\ MarkDone
    /\ UNCHANGED <<db, openReqs, dbVersion, stores, indexes, upgrades, keyGen,
                   calls, handles, savedAs>>
    /\ GatewayIdle
    /\ UtilitiesIdle
    /\ SplashIdle
    /\ Resume(1)
    /\ VisitorsIdle

\* request.onerror of the request of a running transaction: the promise
\* rejects and the transaction aborts without having changed anything
RequestError ==
    \E i \in 1..Len(txQueue) :
        /\ CanRun(txQueue, i, WriteOps)
        /\ ~txQueue[i].done
        /\ last' = Result(txQueue[i].kind, FALSE, 0, NoRecord, <<>>)
        /\ txQueue' = Unmarked(Remove(txQueue, i))
        /\ Resume(i)
        /\ ReadFrame

\* A running transaction, its request answered, commits (complete event)
TxnComplete ==
    \E i \in 1..Len(txQueue) :
        /\ CanRun(txQueue, i, WriteOps)
        /\ txQueue[i].done
        /\ txQueue' = Remove(txQueue, i)
        /\ txUndo' = IF txQueue[i].kind \in WriteOps THEN NoUndo ELSE txUndo
        /\ UNCHANGED <<db, openReqs, dbVersion, stores, indexes, upgrades,
                       entries, tsIndex, keyGen, last, calls, handles,
                       savedAs, everDeleted>>
        /\ GatewayIdle
        /\ UtilitiesIdle
        /\ SplashIdle
        /\ UIIdle
        /\ VisitorsIdle

\* The active readwrite transaction fails to commit (quota, I/O error): the
\* engine fires abort on the transaction and rolls its changes back, the key
\* generator included.  No handler of storage.js listens to the transaction.
TxnAbort ==
    /\ Len(txQueue) > 0
    /\ ActiveTxn.done
    /\ ActiveTxn.kind \in WriteOps
    /\ txQueue' = Tail(txQueue)
    /\ entries' = txUndo.entries
    /\ tsIndex' = txUndo.tsIndex
    /\ keyGen' = txUndo.keyGen
    /\ txUndo' = NoUndo
    /\ UNCHANGED <<db, openReqs, dbVersion, stores, indexes, upgrades,
                   last, calls, handles, savedAs, everDeleted>>
    /\ GatewayIdle
    /\ UtilitiesIdle
    /\ SplashIdle
    /\ UIIdle
    /\ VisitorsIdle

\* The first transaction of the visitors store
ActiveVTxn == vQueue[1]

\* Steps of the visitors store leave the entries store and the open
\* requests alone
EntriesQuiet ==
    UNCHANGED <<db, openReqs, dbVersion, stores, indexes, upgrades, entries,
                tsIndex, keyGen, txQueue, txUndo, handles, savedAs,
                everDeleted>>

\* The same of a step in which no handler of the page goes on
EntriesIdle == EntriesQuiet /\ calls' = calls

\* The readwrite transaction of this kind on the visitors store is
\* running, its request not answered yet
CanExecVisitor(kind) ==
    /\ Len(vQueue) > 0
    /\ ~ActiveVTxn.done
    /\ ActiveVTxn.kind = kind

\* The running transactions of the visitors store with a request of this
\* kind to be answered
RunningVisitor(kind) ==
    {i \in 1..Len(vQueue) : /\ CanRun(vQueue, i, VisitorWriteOps)
                            /\ ~vQueue[i].done
                            /\ vQueue[i].kind = kind}

\* store.add(visitorData) succeeds: request.onsuccess resolves with the key
ExecAddVisitor ==
    /\ CanExecVisitor("addVisitor")
    /\ LET id == vKeyGen
       IN  /\ visitors' = [k \in DOMAIN visitors \cup {id} |->
                              IF k = id THEN StoredVisitor(ActiveVTxn.data, id)
                              ELSE visitors[k]]
           /\ vKeyGen' = vKeyGen + 1
           /\ last' = Result("addVisitor", TRUE, id, NoRecord, <<>>)
           /\ addedAs' = addedAs \cup {[id |-> id, visitor |-> ActiveVTxn.visitor]}
    /\ vUndo' = [visitors |-> visitors, vKeyGen |-> vKeyGen]
    /\ VisitorResume(1, Settled(vQueue, 1))
    /\ EntriesQuiet
    /\ GatewayIdle
    /\ UtilitiesIdle
    /\ SplashIdle

\* store.getAll(): the records of the store in the order of their keys
RECURSIVE GetAll(_, _)
GetAll(store, from) ==
    IF \A k \in DOMAIN store : k < from THEN <<>>
    ELSE IF from \in DOMAIN store
    THEN <<store[from]>> \o GetAll(store, from + 1)
    ELSE GetAll(store, from + 1)

\* A read of the visitors store
VisitorReadFrame ==
    /\ UNCHANGED <<visitors, vKeyGen, vUndo, addedAs>>
    /\ EntriesQuiet
    /\ GatewayIdle
    /\ UtilitiesIdle
    /\ SplashIdle

\* store.getAll() of getAllVisitors succeeds: resolve(request.result)
ExecGetAllVisitors ==
    \E i \in RunningVisitor("getAllVisitors") :
        /\ last' = Result("getAllVisitors", TRUE, 0, NoRecord,
                          GetAll(visitors, 1))
        /\ VisitorResume(i, Settled(vQueue, i))
        /\ VisitorReadFrame

\* store.get(id) of getVisitor succeeds: resolve(request.result), undefined
\* if no visitor has the key
ExecGetVisitor ==
    \E i \in RunningVisitor("getVisitor") :
        /\ last' = Result("getVisitor", TRUE, vQueue[i].id,
                          IF vQueue[i].id \in DOMAIN visitors
                          THEN visitors[vQueue[i].id] ELSE NoRecord,
                          <<>>)
        /\ VisitorResume(i, Settled(vQueue, i))
        /\ VisitorReadFrame

\* A deleteVisitor that cleared the store
ExecClearVisitors ==
    /\ CanExecVisitor("deleteVisitor")
    /\ visitors' = [k \in {} |-> NoRecord]
    /\ last' = Result("deleteVisitor", TRUE, ActiveVTxn.id, NoRecord, <<>>)
    /\ vUndo' = [visitors |-> visitors, vKeyGen |-> vKeyGen]
    /\ VisitorResume(1, Settled(vQueue, 1))
    /\ UNCHANGED <<vKeyGen, addedAs>>
    /\ EntriesQuiet
    /\ GatewayIdle
    /\ UtilitiesIdle
    /\ SplashIdle

\* store.delete(id) of deleteVisitor succeeds, also when no visitor has the
\* key: resolve()
ExecDeleteVisitor ==
    /\ CanExecVisitor("deleteVisitor")
    /\ visitors' = [k \in DOMAIN visitors \ {ActiveVTxn.id} |-> visitors[k]]
    /\ last' = Result("deleteVisitor", TRUE, ActiveVTxn.id, NoRecord, <<>>)
    /\ vUndo' = [visitors |-> visitors, vKeyGen |-> vKeyGen]
    /\ VisitorResume(1, Settled(vQueue, 1))
    /\ UNCHANGED <<vKeyGen, addedAs>>
    /\ EntriesQuiet
    /\ GatewayIdle
    /\ UtilitiesIdle
    /\ SplashIdle

\* request.onerror of the request of a running visitors transaction: reject
VisitorRequestError ==
    \E i \in 1..Len(vQueue) :
        /\ CanRun(vQueue, i, VisitorWriteOps)
        /\ ~vQueue[i].done
        /\ last' = Result(vQueue[i].kind, FALSE, 0, NoRecord, <<>>)
        /\ VisitorResume(i, Unmarked(Remove(vQueue, i)))
        /\ VisitorReadFrame

\* A running visitors transaction, its request answered, commits
VisitorTxnComplete ==
    \E i \in 1..Len(vQueue) :
        /\ CanRun(vQueue, i, VisitorWriteOps)
        /\ vQueue[i].done
        /\ vQueue' = Remove(vQueue, i)
        /\ vUndo' = IF vQueue[i].kind \in VisitorWriteOps THEN NoVUndo
                    ELSE vUndo
        /\ UNCHANGED <<visitors, vKeyGen, last, addedAs>>
        /\ EntriesIdle
        /\ GatewayIdle
        /\ UtilitiesIdle
        /\ SplashIdle
        /\ UIIdle

\* The active readwrite visitors transaction fails to commit and is rolled
\* back; no handler of storage.js listens to the transaction
VisitorTxnAbort ==
    /\ Len(vQueue) > 0
    /\ ActiveVTxn.done
    /\ ActiveVTxn.kind \in VisitorWriteOps
    /\ vQueue' = Tail(vQueue)
    /\ visitors' = vUndo.visitors
    /\ vKeyGen' = vUndo.vKeyGen
    /\ vUndo' = NoVUndo
    /\ UNCHANGED <<last, addedAs>>
    /\ EntriesIdle
    /\ GatewayIdle
    /\ UtilitiesIdle
    /\ SplashIdle
    /\ UIIdle

\* Identifiers passed to getEntry and deleteEntry
Ids == {1, 2}

NextStore ==
    \/ CallInitDB
    \/ \E e \in EntryInputs : CallSaveEntry(e)
    \/ CallGetAllEntries
    \/ \E id \in Ids : CallGetEntry(id)
    \/ \E id \in Ids : CallDeleteEntry(id)
    \/ CallGetEntryCount
    \/ CallDeleteAllEntries
    \/ UpgradeNeeded
    \/ OpenSuccess
    \/ OpenError
    \/ ExecSaveEntry
    \/ ExecGetAllEntries
    \/ ExecGetEntry
    \/ ExecDeleteEntry
    \/ ExecGetEntryCount
    \/ ExecDeleteAllEntries
    \/ RequestError
    \/ TxnComplete
    \/ TxnAbort

\* The calls that change what the two collections hold, and the engine
NextCollections ==
    \/ CallInitDB
    \/ \E e \in EntryInputs : CallSaveEntry(e)
    \/ CallDeleteAllEntries
    \/ \E v \in VisitorInputs : CallAddVisitor(v)
    \/ UpgradeNeeded
    \/ OpenSuccess
    \/ OpenError
    \/ ExecSaveEntry
    \/ ExecDeleteAllEntries
    \/ ExecAddVisitor
    \/ RequestError
    \/ VisitorRequestError
    \/ TxnComplete
    \/ TxnAbort
    \/ VisitorTxnComplete
    \/ VisitorTxnAbort

\* Entry and visitor operations side by side
NextVisitors ==
    \/ \E e \in EntryInputs : CallSaveEntry(e)
    \/ CallGetAllEntries
    \/ \E id \in Ids : CallGetEntry(id)
    \/ \E id \in Ids : CallDeleteEntry(id)
    \/ CallGetEntryCount
    \/ CallDeleteAllEntries
    \/ \E v \in VisitorInputs : CallAddVisitor(v)
    \/ CallGetAllVisitors
    \/ \E id \in Ids : CallGetVisitor(id)
    \/ \E id \in Ids : CallDeleteVisitor(id)
    \/ ExecSaveEntry
    \/ ExecGetAllEntries
    \/ ExecGetEntry
    \/ ExecDeleteEntry
    \/ ExecGetEntryCount
    \/ ExecDeleteAllEntries
    \/ ExecAddVisitor
    \/ ExecGetAllVisitors
    \/ ExecGetVisitor
    \/ ExecDeleteVisitor
    \/ RequestError
    \/ VisitorRequestError
    \/ TxnComplete
    \/ TxnAbort
    \/ VisitorTxnComplete
    \/ VisitorTxnAbort

(***************************************************************************)
(* js/storage.js, utilities: blobToDataURL and dataURLToBlob               *)
(***************************************************************************)
\* Byte values of the payloads: the extremes and one in between
ByteValues == {0, 77, 255}

\* Payloads of up to MaxBytes bytes, the empty one included
Payloads == UNION { [1..n -> ByteValues] : n \in 0..MaxBytes }

\* Blobs handed to blobToDataURL: a typed one (a photo) and an untyped one
BlobTypes == {"image/jpeg", ""}
Blobs == { [type |-> ty, bytes |-> b] : ty \in BlobTypes, b \in Payloads }

NoBlob == [type |-> "", bytes |-> <<>>]

Base64Alphabet ==
    << "A", "B", "C", "D", "E", "F", "G", "H", "I", "J", "K", "L", "M",
       "N", "O", "P", "Q", "R", "S", "T", "U", "V", "W", "X", "Y", "Z",
       "a", "b", "c", "d", "e", "f", "g", "h", "i", "j", "k", "l", "m",
       "n", "o", "p", "q", "r", "s", "t", "u", "v", "w", "x", "y", "z",
       "0", "1", "2", "3", "4", "5", "6", "7", "8", "9", "+", "/" >>

\* The character of a six-bit value
Base64Char(v) == Base64Alphabet[v + 1]

\* The six-bit value of a character of the alphabet
Base64Value(c) == (CHOOSE i \in 1..64 : Base64Alphabet[i] = c) - 1

\* Base64 of a byte sequence: three bytes give four characters, a last
\* group of one or two bytes is padded with '='
RECURSIVE Base64Encode(_)
Base64Encode(bytes) ==
    IF Len(bytes) = 0 THEN <<>>
    ELSE IF Len(bytes) = 1
    THEN << Base64Char(bytes[1] \div 4),
            Base64Char((bytes[1] % 4) * 16), "=", "=" >>
    ELSE IF Len(bytes) = 2
    THEN << Base64Char(bytes[1] \div 4),
            Base64Char((bytes[1] % 4) * 16 + bytes[2] \div 16),
            Base64Char((bytes[2] % 16) * 4), "=" >>
    ELSE << Base64Char(bytes[1] \div 4),
            Base64Char((bytes[1] % 4) * 16 + bytes[2] \div 16),
            Base64Char((bytes[2] % 16) * 4 + bytes[3] \div 64),
            Base64Char(bytes[3] % 64) >>
         \o Base64Encode(SubSeq(bytes, 4, Len(bytes)))

\* A decoder that drops a padded last group
RECURSIVE Base64DecodeWholeGroups(_)
Base64DecodeWholeGroups(chars) ==
    IF Len(chars) < 4 \/ chars[4] = "=" THEN <<>>
    ELSE << Base64Value(chars[1]) * 4 + Base64Value(chars[2]) \div 16,
            (Base64Value(chars[2]) % 16) * 16 + Base64Value(chars[3]) \div 4,
            (Base64Value(chars[3]) % 4) * 64 + Base64Value(chars[4]) >>
         \o Base64DecodeWholeGroups(SubSeq(chars, 5, Len(chars)))

\* The base64 decoding fetch applies to the body of a data: URL: four
\* characters give three bytes, a padded group gives one or two
RECURSIVE Base64Decode(_)
Base64Decode(chars) ==
    IF Len(chars) < 4 THEN <<>>
    ELSE IF chars[3] = "="
    THEN << Base64Value(chars[1]) * 4 + Base64Value(chars[2]) \div 16 >>
    ELSE IF chars[4] = "="
    THEN << Base64Value(chars[1]) * 4 + Base64Value(chars[2]) \div 16,
            (Base64Value(chars[2]) % 16) * 16 + Base64Value(chars[3]) \div 4 >>
    ELSE << Base64Value(chars[1]) * 4 + Base64Value(chars[2]) \div 16,
            (Base64Value(chars[2]) % 16) * 16 + Base64Value(chars[3]) \div 4,
            (Base64Value(chars[3]) % 4) * 64 + Base64Value(chars[4]) >>
         \o Base64Decode(SubSeq(chars, 5, Len(chars)))

\* reader.result of FileReader.readAsDataURL(blob): 'data:', the media type
\* (application/octet-stream for a Blob without type), ';base64,' and the
\* base64 of the bytes, as a sequence of its parts and characters
ReadAsDataURL(b) ==
    << "data:",
       IF b.type = "" THEN "application/octet-stream" ELSE b.type,
       ";base64," >> \o Base64Encode(b.bytes)

\* (await fetch(dataURL)).blob(): the data: URL is split at its first comma,
\* the body is base64-decoded, the Blob gets the media type of the header
FetchBlob(url) ==
    [type |-> url[2], bytes |-> Base64Decode(SubSeq(url, 4, Len(url)))]

\* No conversion is under way
InitUtilities ==
    /\ blob = NoBlob
    /\ dataURL = <<>>
    /\ response = NoBlob
    /\ convStep = "none"

\* blobToDataURL(blob) is called with some Blob: the reader starts
InitConversion ==
    /\ blob \in Blobs
    /\ dataURL = <<>>
    /\ response = NoBlob
    /\ convStep = "reading"

\* The conversions do not touch the database or the caches
ConversionFrame == UNCHANGED <<storeVars, gatewayVars, uiVars>>

\* reader.onload: blobToDataURL resolves with reader.result
BlobToDataURL ==
    /\ convStep = "reading"
    /\ dataURL' = ReadAsDataURL(blob)
    /\ convStep' = "dataURL"
    /\ UNCHANGED <<blob, response>>
    /\ ConversionFrame

\* reader.onerror: blobToDataURL rejects
ReaderError ==
    /\ convStep = "reading"
    /\ convStep' = "rejected"
    /\ UNCHANGED <<blob, dataURL, response>>
    /\ ConversionFrame

\* dataURLToBlob(dataURL) with the data URL blobToDataURL resolved with
DataURLToBlob ==
    /\ convStep = "dataURL"
    /\ response' = FetchBlob(dataURL)
    /\ convStep' = "blob"
    /\ UNCHANGED <<blob, dataURL>>
    /\ ConversionFrame

NextUtilities ==
    \/ BlobToDataURL
    \/ ReaderError
    \/ DataURLToBlob

(***************************************************************************)
(* The service workers: sw.js (CACHE_NAME 'visitorbook-v4', cache-first)   *)
(* and the network-first worker (CACHE_NAME 'visitorbook-v6')              *)
(***************************************************************************)
Workers == {"v4", "v6"}

CACHE_NAME(w) == IF w = "v4" THEN "visitorbook-v4" ELSE "visitorbook-v6"

\* A generation left behind by a deployment older than both workers
StaleName == "visitorbook-v3"

\* self.location.origin, and the text of the URL of a path of that origin
SelfOrigin == "https://kiosk.example"
Url(path) == SelfOrigin \o path

ASSETS_TO_CACHE ==
    { Url("/"), Url("/index.html"), Url("/css/tailwind.css"),
      Url("/css/app.css"), Url("/js/app.js"), Url("/js/canvas.js"),
      Url("/js/camera.js"), Url("/js/storage.js"), Url("/manifest.json") }

\* The script modules the page loads at startup: the controller /js/app.js
\* and the modules of its import declarations, resolved against its URL
StartupModules ==
    { Url("/js/app.js"), Url("/js/camera.js"), Url("/js/canvas.js"),
      Url("/js/storage.js") }

\* text.startsWith(prefix)
startsWith(text, prefix) ==
    /\ Len(text) >= Len(prefix)
    /\ SubSeq(text, 1, Len(prefix)) = prefix

\* event.request.url.startsWith(self.location.origin)
StartsWithOrigin(url) == startsWith(url, SelfOrigin)

\* A URL of another origin whose text begins with the text of the worker's
\* origin: the host only begins with the worker's host
LookAlike == "https://kiosk.example.evil.com/x"

\* isNavigationRequest(request)
isNavigationRequest(shape) == shape.mode = "navigate"

\* The requests the page issues
RequestShapes ==
    { [url |-> Url("/visit"), mode |-> "navigate", method |-> "GET"],
      [url |-> Url("/index.html"), mode |-> "navigate", method |-> "GET"],
      [url |-> Url("/img/logo.png"), mode |-> "no-cors", method |-> "GET"],
      [url |-> Url("/img/logo.png"), mode |-> "cors", method |-> "POST"],
      [url |-> "https://cdn.tailwindcss.com/3.4.1", mode |-> "no-cors",
       method |-> "GET"],
      [url |-> LookAlike, mode |-> "no-cors", method |-> "GET"] }

\* Responses: what the network returned to request `body`, what an install
\* fetched for generation `gen`, the synthetic 504, and no response at all
NetResponse(url, status, r) ==
    [status |-> status, url |-> url, gen |-> "", body |-> r]
AssetResponse(url, name) ==
    [status |-> 200, url |-> url, gen |-> name, body |-> 0]
GatewayTimeout == [status |-> 504, url |-> "", gen |-> "", body |-> 0]
NoResponse == [status |-> 0, url |-> "", gen |-> "", body |-> 0]

CacheNames == {caches[i].name : i \in 1..Len(caches)}

HasCache(name) == name \in CacheNames

CacheIndex(name) == CHOOSE i \in 1..Len(caches) : caches[i].name = name

\* caches.open(name): the cache of that name, created last in the order if
\* there is none
OpenCache(cs, name, cid) ==
    IF \E i \in 1..Len(cs) : cs[i].name = name
    THEN cs
    ELSE Append(cs, [name |-> name, cid |-> cid, data |-> <<>>])

\* caches.delete(name)
RECURSIVE DeleteCache(_, _)
DeleteCache(cs, name) ==
    IF Len(cs) = 0 THEN <<>>
    ELSE IF Head(cs).name = name THEN DeleteCache(Tail(cs), name)
    ELSE <<Head(cs)>> \o DeleteCache(Tail(cs), name)

\* cache.add semantics that keeps an existing entry
PutIfAbsent(data, url, resp) ==
    [u \in DOMAIN data \cup {url} |->
        IF u \in DOMAIN data THEN data[u] ELSE resp]

\* cache.put(request, response): replaces the entry of that request
PutEntry(data, url, resp) ==
    [u \in DOMAIN data \cup {url} |-> IF u = url THEN resp ELSE data[u]]

\* An addAll that stored the two documents of the shell only
AddDocumentsOnly(data, name) ==
    [u \in DOMAIN data \cup {Url("/"), Url("/index.html")} |->
        IF u \in {Url("/"), Url("/index.html")} THEN AssetResponse(u, name)
        ELSE data[u]]

\* cache.addAll(ASSETS_TO_CACHE), all fetched with status 200
AddAll(data, name) ==
    [u \in DOMAIN data \cup ASSETS_TO_CACHE |->
        IF u \in ASSETS_TO_CACHE THEN AssetResponse(u, name) ELSE data[u]]

\* caches.match(request): the generations are searched in creation order and
\* the first entry for the request is the result, undefined if none has one
RECURSIVE CacheStorageMatch(_, _)
CacheStorageMatch(cs, url) ==
    IF Len(cs) = 0 THEN NoResponse
    ELSE IF url \in DOMAIN Head(cs).data THEN Head(cs).data[url]
    ELSE CacheStorageMatch(Tail(cs), url)

\* A fetch event in the hands of worker w
NewRequest(w, shape) ==
    [w |-> w, url |-> shape.url, mode |-> shape.mode, method |-> shape.method,
     pc |-> "start", net |-> "none", seq |-> 0, miss |-> FALSE,
     from |-> "none", resp |-> NoResponse, put |-> "none", cid |-> 0]

\* The browser has never run a worker of this origin; a generation of an
\* older deployment may be left in its CacheStorage
InitGateway ==
    /\ caches \in { <<>>,
                    << [name |-> StaleName, cid |-> 0,
                        data |-> AddAll(<<>>, StaleName)] >> }
    /\ nextCid = 1
    /\ wstate = [w \in Workers |-> "parsed"]
    /\ toDelete = [w \in Workers |-> {}]
    /\ reqs = <<>>
    /\ installs = 0

Init == InitStore /\ InitGateway /\ InitUtilities /\ InitUI

(***************************************************************************)
(* Lifecycle of a worker: install, then (skipWaiting) activate             *)
(***************************************************************************)
Other(w) == CHOOSE v \in Workers : v # w

StoreIdle == UNCHANGED storeVars

\* The browser finds the script of worker w and dispatches its install
\* event: the handler calls caches.open(CACHE_NAME).  sw.js is the older
\* deployment: it is not installed once the v6 worker has been seen, and no
\* update starts while the other worker is between install and activation.
InstallStart(w) ==
    /\ installs < MaxInstalls
    /\ wstate[w] \in {"parsed", "failed"}
    /\ wstate[Other(w)] \in {"parsed", "failed", "activated"}
    /\ w = "v4" => wstate["v6"] = "parsed"
    /\ installs' = installs + 1
    /\ wstate' = [wstate EXCEPT ![w] = "installing"]
    /\ UNCHANGED <<caches, nextCid, toDelete, reqs>>
    /\ StoreIdle
    /\ UtilitiesIdle
    /\ UIIdle

\* caches.open(CACHE_NAME) of the install handler resolves
InstallOpen(w) ==
    /\ wstate[w] = "installing"
    /\ caches' = OpenCache(caches, CACHE_NAME(w), nextCid)
    /\ nextCid' = IF HasCache(CACHE_NAME(w)) THEN nextCid ELSE nextCid + 1
    /\ wstate' = [wstate EXCEPT ![w] = "caching"]
    /\ UNCHANGED <<toDelete, reqs, installs>>
    /\ StoreIdle
    /\ UtilitiesIdle
    /\ UIIdle

\* cache.addAll(ASSETS_TO_CACHE) resolves, then self.skipWaiting(): the
\* install succeeds and, the waiting phase skipped, the worker becomes the
\* active one in state activating; the worker active so far turns redundant.
\* The activate handler calls caches.keys().
InstallCached(w) ==
    /\ wstate[w] = "caching"
    /\ HasCache(CACHE_NAME(w))
    /\ caches' = [caches EXCEPT ![CacheIndex(CACHE_NAME(w))].data =
                      AddAll(@, CACHE_NAME(w))]
    /\ wstate' = [v \in Workers |->
                     IF v = w THEN "activating"
                     ELSE IF wstate[v] = "activated" THEN "redundant"
                     ELSE wstate[v]]
    /\ reqs' = [k \in 1..Len(reqs) |->
                   IF reqs[k].put = "stored" /\ reqs[k].url \in ASSETS_TO_CACHE
                      /\ reqs[k].cid = caches[CacheIndex(CACHE_NAME(w))].cid
                   THEN [reqs[k] EXCEPT !.put = "replaced"]
                   ELSE reqs[k]]
    /\ UNCHANGED <<nextCid, toDelete, installs>>
    /\ StoreIdle
    /\ UtilitiesIdle
    /\ UIIdle

\* An install handler that called skipWaiting() whatever the chain did
AfterInstallSkipWaiting == "activating"

\* The promise given to waitUntil rejected: .then(() => self.skipWaiting())
\* did not run and the browser discards the worker
AfterInstallRejected == "failed"

\* cache.addAll rejects (an asset could not be fetched) or the cache could
\* not be opened: nothing is added, waitUntil rejects, the install fails
InstallFailed(w) ==
    /\ wstate[w] \in {"installing", "caching"}
    /\ wstate' = [wstate EXCEPT ![w] = AfterInstallRejected]
    /\ UNCHANGED <<caches, nextCid, toDelete, reqs, installs>>
    /\ StoreIdle
    /\ UtilitiesIdle
    /\ UIIdle

\* caches.keys() of the activate handler resolves; caches.delete is called
\* for every name other than CACHE_NAME
ActivateKeys(w) ==
    /\ wstate[w] = "activating"
    /\ toDelete' = [toDelete EXCEPT ![w] = CacheNames \ {CACHE_NAME(w)}]
    /\ wstate' = [wstate EXCEPT ![w] = "purging"]
    /\ UNCHANGED <<caches, nextCid, reqs, installs>>
    /\ StoreIdle
    /\ UtilitiesIdle
    /\ UIIdle

\* One caches.delete(name) of the activate handler resolves
ActivateDelete(w, name) ==
    /\ wstate[w] = "purging"
    /\ name \in toDelete[w]
    /\ caches' = DeleteCache(caches, name)
    /\ toDelete' = [toDelete EXCEPT ![w] = @ \ {name}]
    /\ reqs' = [k \in 1..Len(reqs) |->
                   IF reqs[k].put = "stored" /\ HasCache(name)
                      /\ reqs[k].cid = caches[CacheIndex(name)].cid
                   THEN [reqs[k] EXCEPT !.put = "purged"]
                   ELSE reqs[k]]
    /\ UNCHANGED <<nextCid, wstate, installs>>
    /\ StoreIdle
    /\ UtilitiesIdle
    /\ UIIdle

\* Promise.all of the deletes resolves, then self.clients.claim(): the
\* activation is complete and the worker receives the fetch events
ActivateClaim(w) ==
    /\ wstate[w] = "purging"
    /\ toDelete[w] = {}
    /\ wstate' = [wstate EXCEPT ![w] = "activated"]
    /\ UNCHANGED <<caches, nextCid, toDelete, reqs, installs>>
    /\ StoreIdle
    /\ UtilitiesIdle
    /\ UIIdle

(***************************************************************************)
(* The fetch listeners                                                     *)
(***************************************************************************)
\* The guards of both fetch listeners: GET and same origin, else return
Intercepts(shape) == shape.method = "GET" /\ StartsWithOrigin(shape.url)

\* What a fetch listener does first with an intercepted request: sw.js looks
\* into the caches, the v6 worker goes to the network
CacheFirstStep(w) == "matching"

FirstStep(w) == IF w = "v4" THEN "matching" ELSE "fetching"

SetReq(r, rec) == reqs' = [reqs EXCEPT ![r] = rec]

Respond(q, from, resp) == [q EXCEPT !.pc = "responded", !.from = from, !.resp = resp]

\* A fetch event reaches the active worker w.  A request that is not GET or
\* not of the own origin is left to the browser.  Otherwise sw.js starts
\* with caches.match(event.request), the v6 worker with fetch(event.request).
FetchEvent(w, shape) ==
    /\ Len(reqs) < MaxRequests
    /\ wstate[w] = "activated"
    /\ LET q == NewRequest(w, shape)
       IN  reqs' = Append(reqs,
               IF ~Intercepts(shape) THEN [q EXCEPT !.pc = "passthrough"]
               ELSE [q EXCEPT !.pc = FirstStep(w),
                              !.net = IF FirstStep(w) = "fetching"
                                      THEN "pending" ELSE "none"])
    /\ UNCHANGED <<caches, nextCid, wstate, toDelete, installs>>
    /\ StoreIdle
    /\ UtilitiesIdle
    /\ UIIdle

\* caches.match(event.request) resolves.
\*   sw.js: a hit is the response; on a miss fetch(event.request) is called.
\*   v6 (in the catch branch): a hit is the response; on a miss a navigation
\*   goes on to caches.match('/index.html'), anything else gets the 504.
MatchDone(r) ==
    /\ r \in 1..Len(reqs)
    /\ reqs[r].pc = "matching"
    /\ LET q == reqs[r]
           hit == CacheStorageMatch(caches, q.url)
       IN  IF hit # NoResponse
           THEN SetReq(r, Respond(q, "cache", hit))
           ELSE IF q.w = "v4"
           THEN SetReq(r, [q EXCEPT !.pc = "fetching", !.net = "pending",
                                    !.miss = TRUE])
           ELSE IF isNavigationRequest(q)
           THEN SetReq(r, [q EXCEPT !.pc = "matchingShell", !.miss = TRUE])
           ELSE SetReq(r, [Respond(q, "synthetic", GatewayTimeout)
                               EXCEPT !.miss = TRUE])
    /\ UNCHANGED <<caches, nextCid, wstate, toDelete, installs>>
    /\ StoreIdle
    /\ UtilitiesIdle
    /\ UIIdle

\* caches.match('/index.html') of the v6 worker resolves; its result, a
\* response or undefined, is what respondWith gets
ShellMatchDone(r) ==
    /\ r \in 1..Len(reqs)
    /\ reqs[r].pc = "matchingShell"
    /\ LET shell == CacheStorageMatch(caches, Url("/index.html"))
       IN  SetReq(r, Respond(reqs[r], "shell", shell))
    /\ UNCHANGED <<caches, nextCid, wstate, toDelete, installs>>
    /\ StoreIdle
    /\ UtilitiesIdle
    /\ UIIdle

\* A listener that returned the response only once cache.put had resolved
PutAwaited == "stored"

\* caches.open(CACHE_NAME).then(...) has been called and is not awaited: the
\* cache write is under way when the response is returned
PutUnderWay == "opening"

\* fetch(event.request) resolves with status 200: the response is cloned,
\* caches.open(CACHE_NAME) is called without being awaited, and the response
\* is returned
NetOk(r) ==
    /\ r \in 1..Len(reqs)
    /\ reqs[r].pc = "fetching"
    /\ SetReq(r, [Respond(reqs[r], "network", NetResponse(reqs[r].url, 200, r))
                      EXCEPT !.net = "ok", !.put = PutUnderWay,
                             !.seq = Cardinality({k \in 1..Len(reqs) :
                                          reqs[k].net = "ok"}) + 1])
    /\ UNCHANGED <<caches, nextCid, wstate, toDelete, installs>>
    /\ StoreIdle
    /\ UtilitiesIdle
    /\ UIIdle

\* A listener that cached whatever the network returned
NetNon200Cached(r) ==
    /\ r \in 1..Len(reqs)
    /\ reqs[r].pc = "fetching"
    /\ SetReq(r, [Respond(reqs[r], "network", NetResponse(reqs[r].url, 404, r))
                      EXCEPT !.net = "non200", !.put = PutUnderWay])
    /\ UNCHANGED <<caches, nextCid, wstate, toDelete, installs>>
    /\ StoreIdle
    /\ UtilitiesIdle
    /\ UIIdle

\* fetch(event.request) resolves with another status: returned, not cached
NetNon200(r) ==
    /\ r \in 1..Len(reqs)
    /\ reqs[r].pc = "fetching"
    /\ SetReq(r, [Respond(reqs[r], "network", NetResponse(reqs[r].url, 404, r))
                      EXCEPT !.net = "non200"])
    /\ UNCHANGED <<caches, nextCid, wstate, toDelete, installs>>
    /\ StoreIdle
    /\ UtilitiesIdle
    /\ UIIdle

\* fetch(event.request) rejects.  sw.js has no catch: the promise given to
\* respondWith rejects.  The v6 worker calls caches.match(event.request).
NetFail(r) ==
    /\ r \in 1..Len(reqs)
    /\ reqs[r].pc = "fetching"
    /\ SetReq(r, IF reqs[r].w = "v4"
                 THEN [reqs[r] EXCEPT !.pc = "rejected", !.net = "failed"]
                 ELSE [reqs[r] EXCEPT !.pc = "matching", !.net = "failed"])
    /\ UNCHANGED <<caches, nextCid, wstate, toDelete, installs>>
    /\ StoreIdle
    /\ UtilitiesIdle
    /\ UIIdle

\* caches.open(CACHE_NAME) of the cache write resolves with the cache of
\* that name, creating it if there is none
PutOpen(r) ==
    /\ r \in 1..Len(reqs)
    /\ reqs[r].put = "opening"
    /\ LET name == CACHE_NAME(reqs[r].w)
           cs == OpenCache(caches, name, nextCid)
       IN  /\ caches' = cs
           /\ nextCid' = IF HasCache(name) THEN nextCid ELSE nextCid + 1
           /\ SetReq(r, [reqs[r] EXCEPT !.put = "putting",
                            !.cid = cs[CHOOSE i \in 1..Len(cs) :
                                          cs[i].name = name].cid])
    /\ UNCHANGED <<wstate, toDelete, installs>>
    /\ StoreIdle
    /\ UtilitiesIdle
    /\ UIIdle

\* The entries other writes of the same request left in the cache written
\* to are replaced by this one
Superseded(r, q) ==
    /\ q.put = "stored"
    /\ q.cid = reqs[r].cid
    /\ q.url = reqs[r].url

\* cache.put(event.request, responseToCache) resolves.  The Cache object is
\* the one caches.open returned: if that cache has been deleted since, the
\* write does not show in the CacheStorage.
PutStore(r) ==
    /\ r \in 1..Len(reqs)
    /\ reqs[r].put = "putting"
    /\ LET q == reqs[r]
           live == {i \in 1..Len(caches) : caches[i].cid = q.cid}
       IN  /\ caches' = [i \in 1..Len(caches) |->
                            IF i \in live
                            THEN [caches[i] EXCEPT !.data =
                                      PutEntry(@, q.url, q.resp)]
                            ELSE caches[i]]
           /\ reqs' = [k \in 1..Len(reqs) |->
                          IF k = r
                          THEN [q EXCEPT !.put = IF live = {} THEN "orphaned"
                                                 ELSE "stored"]
                          ELSE IF live # {} /\ Superseded(r, reqs[k])
                          THEN [reqs[k] EXCEPT !.put = "replaced"]
                          ELSE reqs[k]]
    /\ UNCHANGED <<nextCid, wstate, toDelete, installs>>
    /\ StoreIdle
    /\ UtilitiesIdle
    /\ UIIdle

\* A listener whose response was chained behind the cache write
FailedWriteRejects(q) ==
    [q EXCEPT !.put = "failed", !.pc = "rejected", !.resp = NoResponse]

\* The chain of the cache write is not returned to respondWith: its
\* rejection reaches nobody and the response stays what it was
FailedWrite(q) == [q EXCEPT !.put = "failed"]

\* caches.open or cache.put of the cache write rejects (quota): nobody
\* handles the rejection
PutFail(r) ==
    /\ r \in 1..Len(reqs)
    /\ reqs[r].put \in {"opening", "putting"}
    /\ SetReq(r, FailedWrite(reqs[r]))
    /\ UNCHANGED <<caches, nextCid, wstate, toDelete, installs>>
    /\ StoreIdle
    /\ UtilitiesIdle
    /\ UIIdle

\* The browser stops a redundant worker: what it had pending never runs
Terminate(w) ==
    /\ wstate[w] = "redundant"
    /\ \E k \in 1..Len(reqs) :
           /\ reqs[k].w = w
           /\ \/ reqs[k].pc \in {"matching", "fetching"}
              \/ reqs[k].put \in {"opening", "putting"}
    /\ reqs' = [k \in 1..Len(reqs) |->
                   IF reqs[k].w # w THEN reqs[k]
                   ELSE [reqs[k] EXCEPT
                            !.pc = IF @ \in {"matching", "fetching"}
                                   THEN "killed" ELSE @,
                            !.put = IF @ \in {"opening", "putting"}
                                    THEN "killed" ELSE @]]
    /\ UNCHANGED <<caches, nextCid, wstate, toDelete, installs>>
    /\ StoreIdle
    /\ UtilitiesIdle
    /\ UIIdle

NextGateway ==
    \/ \E w \in Workers : InstallStart(w)
    \/ \E w \in Workers : InstallOpen(w)
    \/ \E w \in Workers : InstallCached(w)
    \/ \E w \in Workers : InstallFailed(w)
    \/ \E w \in Workers : ActivateKeys(w)
    \/ \E w \in Workers, name \in CacheNames \cup {StaleName} :
           ActivateDelete(w, name)
    \/ \E w \in Workers : ActivateClaim(w)
    \/ \E w \in Workers, shape \in RequestShapes : FetchEvent(w, shape)
    \/ \E r \in 1..MaxRequests : MatchDone(r)
    \/ \E r \in 1..MaxRequests : ShellMatchDone(r)
    \/ \E r \in 1..MaxRequests : NetOk(r)
    \/ \E r \in 1..MaxRequests : NetNon200(r)
    \/ \E r \in 1..MaxRequests : NetFail(r)
    \/ \E r \in 1..MaxRequests : PutOpen(r)
    \/ \E r \in 1..MaxRequests : PutStore(r)
    \/ \E r \in 1..MaxRequests : PutFail(r)
    \/ \E w \in Workers : Terminate(w)

(***************************************************************************)
(* js/app.js, js/camera.js, js/canvas.js: the visit, from the home screen  *)
(* over the photo and the feedback screen to the thank-you screen.  The    *)
(* controls of a screen are used while it is the active one.               *)
(***************************************************************************)
\* Results of processImage(file) for the files a visitor may pick
Files == { [type |-> "image/jpeg", bytes |-> <<255, 0>>] }

\* What the visitor may type into a text input
Typed == { <<" ", "Bo", " ">> }

\* The n-th object URL the page has created, standing for blob b
ObjectURL(n, b) == <<"blob:", n>> \o b.bytes

\* URL.createObjectURL(blob): a URL no earlier call has returned
createPhotoURL(b) == ObjectURL(urlSeq + 1, b)

\* canvas.toDataURL('image/png') of the bitmap
getCanvasDataURL == "data:image/png;" \o pixels

\* A handler of the page runs: neither the service workers nor the
\* conversion under test are involved
PageFrame == GatewayIdle /\ UtilitiesIdle /\ SplashIdle

\* A handler of the photo, feedback or thank-you screen runs
VisitFrame == PageFrame /\ UNCHANGED <<loads, browseVars, adminVars>>

\* What a selection is to leave behind once it has taken effect
PickOfFile(f) ==
    [blob |-> f, url |-> NullURL, id |-> 0, failed |-> FALSE]
PickOfVisitor(v) ==
    [blob |-> IF v.photo # NullURL THEN FetchBlob(v.photo)
              ELSE [type |-> "", bytes |-> <<>>],
     url |-> v.photo, id |-> v.id, failed |-> FALSE]

\* Click on the splash screen: showScreen('home')
TapSplash ==
    /\ screen = "splash"
    /\ screen' = "home"
    /\ UNCHANGED <<waiters, vWaiters, loads, splashTimer, visitVars,
                   browseVars, adminVars, storeVars>>
    /\ GatewayIdle
    /\ UtilitiesIdle

\* The timeout of init() fires, two seconds after the splash screen was
\* shown: showScreen('home'), whatever screen is shown by then
SplashTimeout ==
    /\ splashTimer
    /\ splashTimer' = FALSE
    /\ screen' = "home"
    /\ UNCHANGED <<waiters, vWaiters, loads, visitVars, browseVars,
                   adminVars, storeVars>>
    /\ GatewayIdle
    /\ UtilitiesIdle

\* Click on #btn-new-feedback: loadPreregisteredVisitors calls
\* getAllVisitors and awaits it
NewFeedback ==
    /\ screen = "home"
    /\ Call("getAllVisitors", 0, NoVisitor)
    /\ vWaiters' = Append(vWaiters,
           [handler |-> "loadPreregisteredVisitors", photo |-> NullURL,
            signature |-> "", visit |-> 0])
    /\ UNCHANGED <<screen, waiters, loads, visitVars, browseVars, adminVars>>

\* The visitor types a name on the photo screen
TypePhotoName(t) ==
    /\ screen = "photo"
    /\ photoNameInput # t
    /\ photoNameInput' = t
    /\ UNCHANGED <<pageVars, cards, sectionShown, photoDesignationInput,
                   currentVisitorName, currentVisitorDesignation,
                   selectedVisitorId, currentPhotoURL, objectURLs, urlSeq,
                   currentPhotoBlob, conversions, picks, canvasVars,
                   feedbackVars, storeVars>>
    /\ VisitFrame

\* The files whose processImage has not settled
FilesInProcess ==
    Cardinality({i \in 1..Len(conversions) : conversions[i].kind = "file"})

\* change event of #camera-input or #gallery-input: handleFile awaits
\* processImage(file)
handleFile(f) ==
    /\ screen = "photo"
    /\ Len(picks) < MaxPicks
    /\ Len(conversions) < MaxPicks
    /\ urlSeq + FilesInProcess < MaxURLs
    /\ conversions' = Append(conversions,
           [kind |-> "file", blob |-> f, visitor |-> NoRecord,
            pick |-> Len(picks) + 1])
    /\ picks' = Append(picks, PickOfFile(f))
    /\ UNCHANGED <<pageVars, cards, sectionShown, photoNameInput,
                   photoDesignationInput, currentVisitorName,
                   currentVisitorDesignation, selectedVisitorId,
                   currentPhotoURL, objectURLs, urlSeq, currentPhotoBlob,
                   canvasVars, feedbackVars, storeVars>>
    /\ VisitFrame

\* processImage resolves: currentPhotoBlob = processedBlob, then
\* handlePhotoSelected(processedBlob)
handlePhotoSelected(i) ==
    /\ i \in 1..Len(conversions)
    /\ conversions[i].kind = "file"
    /\ currentPhotoBlob' = conversions[i].blob
    /\ selectedVisitorId' = 0
    /\ objectURLs' = (objectURLs \ {currentPhotoURL})
                        \cup {createPhotoURL(conversions[i].blob)}
    /\ currentPhotoURL' = createPhotoURL(conversions[i].blob)
    /\ urlSeq' = urlSeq + 1
    /\ conversions' = Remove(conversions, i)
    /\ UNCHANGED <<pageVars, cards, sectionShown, photoNameInput,
                   photoDesignationInput, currentVisitorName,
                   currentVisitorDesignation, picks, canvasVars,
                   feedbackVars, storeVars>>
    /\ VisitFrame

\* processImage rejects: the catch block of handleFile logs the error
ProcessImageFails(i) ==
    /\ i \in 1..Len(conversions)
    /\ conversions[i].kind = "file"
    /\ conversions' = Remove(conversions, i)
    /\ picks' = IF conversions[i].pick = 0 THEN picks
                ELSE [picks EXCEPT ![conversions[i].pick].failed = TRUE]
    /\ UNCHANGED <<pageVars, cards, sectionShown, photoNameInput,
                   photoDesignationInput, currentVisitorName,
                   currentVisitorDesignation, selectedVisitorId,
                   currentPhotoURL, objectURLs, urlSeq, currentPhotoBlob,
                   canvasVars, feedbackVars, storeVars>>
    /\ VisitFrame

\* Click on a visitor card: selectPreregisteredVisitor up to its await, or
\* to its end for a visitor without photo
selectPreregisteredVisitor(k) ==
    /\ screen = "photo"
    /\ sectionShown
    /\ k \in 1..Len(cards)
    /\ Len(picks) < MaxPicks
    /\ Len(conversions) < MaxPicks
    /\ selectedVisitorId' = cards[k].id
    /\ picks' = Append(picks, PickOfVisitor(cards[k]))
    /\ IF cards[k].photo # NullURL
       THEN /\ conversions' = Append(conversions,
                   [kind |-> "visitor", blob |-> [type |-> "", bytes |-> <<>>],
                    visitor |-> cards[k], pick |-> Len(picks) + 1])
            /\ UNCHANGED <<currentPhotoBlob, currentPhotoURL, photoNameInput,
                           photoDesignationInput>>
       ELSE /\ conversions' = conversions
            /\ currentPhotoBlob' = [type |-> "", bytes |-> <<>>]
            /\ currentPhotoURL' = NullURL
            /\ photoNameInput' = ValueOf(cards[k].name)
            /\ photoDesignationInput' = ValueOf(OrEmpty(cards[k].designation))
    /\ UNCHANGED <<pageVars, cards, sectionShown, currentVisitorName,
                   currentVisitorDesignation, objectURLs, urlSeq, canvasVars,
                   feedbackVars, storeVars>>
    /\ VisitFrame

\* dataURLToBlob(visitor.photo) resolves: the rest of
\* selectPreregisteredVisitor
VisitorPhotoLoaded(i) ==
    /\ i \in 1..Len(conversions)
    /\ conversions[i].kind = "visitor"
    /\ LET v == conversions[i].visitor
       IN  /\ currentPhotoBlob' = FetchBlob(v.photo)
           /\ currentPhotoURL' = v.photo
           /\ photoNameInput' = ValueOf(v.name)
           /\ photoDesignationInput' = ValueOf(OrEmpty(v.designation))
    /\ conversions' = Remove(conversions, i)
    /\ UNCHANGED <<pageVars, cards, sectionShown, currentVisitorName,
                   currentVisitorDesignation, selectedVisitorId, objectURLs,
                   urlSeq, picks, canvasVars, feedbackVars, storeVars>>
    /\ VisitFrame

\* resetPhotoSelection(); the selections made before it are forgotten
resetPhotoSelection ==
    /\ currentPhotoURL' = NullURL
    /\ objectURLs' = objectURLs \ {currentPhotoURL}
    /\ currentPhotoBlob' = [type |-> "", bytes |-> <<>>]
    /\ selectedVisitorId' = 0
    /\ currentVisitorName' = ""
    /\ currentVisitorDesignation' = ""
    /\ photoNameInput' = NoText
    /\ photoDesignationInput' = NoText
    /\ picks' = <<>>
    /\ conversions' = [i \in 1..Len(conversions) |->
                          [conversions[i] EXCEPT !.pick = 0]]
    /\ UNCHANGED <<cards, sectionShown, urlSeq>>

\* Click on #btn-retake-photo
RetakePhoto ==
    /\ screen = "photo"
    /\ currentPhotoURL # NullURL \/ picks # <<>> \/ photoNameInput # NoText
    /\ resetPhotoSelection
    /\ UNCHANGED <<pageVars, canvasVars, feedbackVars, storeVars>>
    /\ VisitFrame

\* Click on #btn-back-photo
BackPhoto ==
    /\ screen = "photo"
    /\ resetPhotoSelection
    /\ screen' = "home"
    /\ UNCHANGED <<waiters, vWaiters, canvasVars, feedbackVars, storeVars>>
    /\ VisitFrame

\* Click on #btn-continue-photo: the inputs are read, setupFeedbackScreen
\* fills the feedback screen and clears the canvas, showScreen('feedback').
\* The 'resize' event setupFeedbackScreen dispatches 100 ms later is a step
\* of its own: resizeCanvas.
ContinuePhoto ==
    /\ screen = "photo"
    /\ visit < MaxVisits
    /\ currentVisitorName' = Trim(photoNameInput)
    /\ currentVisitorDesignation' = Trim(photoDesignationInput)
    /\ visitorName' = ValueOf(Trim(photoNameInput))
    /\ visitorDesignation' = ValueOf(Trim(photoDesignationInput))
    /\ pixels' = "blank"
    /\ hasDrawn' = FALSE
    /\ points' = 0
    /\ visit' = visit + 1
    /\ screen' = "feedback"
    /\ UNCHANGED <<waiters, vWaiters, cards, sectionShown, photoNameInput,
                   photoDesignationInput, selectedVisitorId, currentPhotoURL,
                   objectURLs, urlSeq, currentPhotoBlob, conversions, picks,
                   isDrawing, eraserMode, reads, savedBy, timers, thankyou,
                   storeVars>>
    /\ VisitFrame

\* Click on #btn-back-feedback: showScreen('photo')
BackFeedback ==
    /\ screen = "feedback"
    /\ screen' = "photo"
    /\ UNCHANGED <<waiters, vWaiters, visitVars, storeVars>>
    /\ VisitFrame

\* pointerdown on the canvas: a stroke begins with one point, and
\* handleDrawStart is told of the first one
handlePointerDown ==
    /\ screen = "feedback"
    /\ isDrawing' = TRUE
    /\ points' = 1
    /\ hasDrawn' = TRUE
    /\ UNCHANGED <<pixels, eraserMode, pageVars, photoVars, feedbackVars,
                   storeVars>>
    /\ VisitFrame

\* What drawSmoothLine leaves on a bitmap: nothing with fewer than two
\* points; a stroke in 'source-over'; in 'destination-out' the eraser
\* takes away what it goes over
drawSmoothLine(bitmap, n) ==
    IF n < 2 THEN bitmap
    ELSE IF ~eraserMode THEN "strokes"
    ELSE IF bitmap = "blank" THEN "blank"
    ELSE "erased"

\* pointermove on the canvas: while drawing, the point is pushed and the
\* line drawn; of more than three points the last three are kept
handlePointerMove ==
    /\ screen = "feedback"
    /\ isDrawing
    /\ points' = IF points + 1 > 3 THEN 3 ELSE points + 1
    /\ pixels' = drawSmoothLine(pixels, points + 1)
    /\ UNCHANGED <<hasDrawn, isDrawing, eraserMode, pageVars, photoVars,
                   feedbackVars, storeVars>>
    /\ VisitFrame

\* pointerup, pointerleave or pointercancel on the canvas
handlePointerUp ==
    /\ isDrawing
    /\ isDrawing' = FALSE
    /\ points' = 0
    /\ UNCHANGED <<hasDrawn, pixels, eraserMode, pageVars, photoVars,
                   feedbackVars, storeVars>>
    /\ VisitFrame

\* Click on #btn-clear-canvas: clearCanvas()
clearCanvas ==
    /\ screen = "feedback"
    /\ pixels' = "blank"
    /\ hasDrawn' = FALSE
    /\ points' = 0
    /\ UNCHANGED <<isDrawing, eraserMode, pageVars, photoVars, feedbackVars,
                   storeVars>>
    /\ VisitFrame

\* 'resize' on the window: resizeCanvas().  The event is dispatched by the
\* timeout of setupFeedbackScreen, 100 ms after the screen was set up, and
\* by the browser whenever the window changes its size.  Setting the width
\* of the canvas resets its bitmap; the drawing is put back only when
\* hasDrawn is set.
resizeCanvas ==
    /\ pixels' = IF hasDrawn THEN pixels ELSE "blank"
    /\ UNCHANGED <<hasDrawn, isDrawing, eraserMode, points, pageVars,
                   photoVars, feedbackVars, storeVars>>
    /\ VisitFrame

\* setEraserMode(enabled): a click on #btn-eraser toggles the eraser, a
\* click on a colour button turns it off
setEraserMode(enabled) ==
    /\ screen = "feedback"
    /\ eraserMode # enabled
    /\ eraserMode' = enabled
    /\ UNCHANGED <<hasDrawn, isDrawing, pixels, points, pageVars, photoVars,
                   feedbackVars, storeVars>>
    /\ VisitFrame

\* The visitor edits the name on the feedback screen
TypeVisitorName(t) ==
    /\ screen = "feedback"
    /\ visitorName # t
    /\ visitorName' = t
    /\ UNCHANGED <<visitorDesignation, reads, visit, savedBy, timers,
                   thankyou, pageVars, photoVars, canvasVars, storeVars>>
    /\ VisitFrame

\* handleSubmit from getCanvasDataURL() to the call of saveEntry, which it
\* awaits; v is the set-up of the feedback screen the click belongs to
SaveSubmission(photoDataURL, v) ==
    /\ Call("saveEntry", 0,
            [photo |-> photoDataURL, signature |-> getCanvasDataURL,
             name |-> Trim(visitorName),
             designation |-> Trim(visitorDesignation),
             timestamp |-> <<>>, id |-> 0])
    /\ waiters' = Append(waiters,
           [handler |-> "handleSubmit", photo |-> photoDataURL,
            signature |-> getCanvasDataURL, visit |-> v])
    /\ UNCHANGED <<screen, vWaiters, loads, photoVars, canvasVars,
                   visitorName, visitorDesignation, visit, savedBy, timers,
                   thankyou, browseVars, adminVars>>

\* Click on #btn-submit: handleSubmit up to its first await.  Without
\* content it alerts and returns; with a photo it awaits blobToDataURL;
\* without one it goes on to saveEntry at once.  MaxSubmits clicks get
\* past the test of the content.
handleSubmit ==
    /\ screen = "feedback"
    /\ hasDrawn
    /\ calls + Len(reads) < MaxSubmits
    /\ IF currentPhotoBlob # [type |-> "", bytes |-> <<>>]
       THEN /\ Len(reads) < MaxPending
            /\ reads' = Append(reads, [photo |-> currentPhotoBlob,
                                       visit |-> visit])
            /\ UNCHANGED <<pageVars, photoVars, canvasVars, visitorName,
                           visitorDesignation, visit, savedBy, timers,
                           thankyou, storeVars>>
            /\ VisitFrame
       ELSE /\ SaveSubmission(NullURL, visit)
            /\ reads' = reads

\* reader.onload of blobToDataURL(photo): handleSubmit goes on
SubmitPhotoRead(i) ==
    /\ i \in 1..Len(reads)
    /\ SaveSubmission(ReadAsDataURL(reads[i].photo), reads[i].visit)
    /\ reads' = Remove(reads, i)

\* reader.onerror of blobToDataURL(photo): the catch block of handleSubmit
SubmitPhotoReadFails(i) ==
    /\ i \in 1..Len(reads)
    /\ reads' = Remove(reads, i)
    /\ UNCHANGED <<visitorName, visitorDesignation, visit, savedBy, timers,
                   thankyou, pageVars, photoVars, canvasVars, storeVars>>
    /\ VisitFrame

\* The timeout of showThankYouScreen fires: resetPhotoSelection(),
\* showScreen('home')
ThankYouTimeout ==
    /\ timers > 0
    /\ timers' = timers - 1
    /\ resetPhotoSelection
    /\ screen' = "home"
    /\ UNCHANGED <<waiters, vWaiters, canvasVars, visitorName,
                   visitorDesignation, reads, visit, savedBy, thankyou,
                   storeVars>>
    /\ VisitFrame

\* The photo screen of a visit: the visitor cards are loaded, photos and
\* visitors are selected, and the conversions finish in any order; the
\* visitor goes on to the feedback screen and comes back, one time fewer
\* than the feedback screen can be set up
NextPhoto ==
    \/ TapSplash
    \/ SplashTimeout
    \/ NewFeedback
    \/ ExecGetAllVisitors
    \/ VisitorRequestError
    \/ VisitorTxnComplete
    \/ \E t \in Typed : TypePhotoName(t)
    \/ \E f \in Files : handleFile(f)
    \/ \E i \in 1..Len(conversions) : handlePhotoSelected(i)
    \/ \E i \in 1..Len(conversions) : ProcessImageFails(i)
    \/ \E k \in 1..Len(cards) : selectPreregisteredVisitor(k)
    \/ \E i \in 1..Len(conversions) : VisitorPhotoLoaded(i)
    \/ RetakePhoto
    \/ BackPhoto
    \/ visit < MaxVisits - 1 /\ ContinuePhoto
    \/ BackFeedback

\* A submission: a visitor with or without a photo of the camera writes on
\* the canvas and submits; the requests of saveEntry are answered and
\* their transactions commit or fail to; the timeout of init(), when it is
\* pending, shows the home screen at any moment
NextSubmit ==
    \/ SplashTimeout
    \/ handlePointerDown
    \/ handlePointerMove
    \/ handlePointerUp
    \/ clearCanvas
    \/ resizeCanvas
    \/ \E enabled \in BOOLEAN : setEraserMode(enabled)
    \/ BackFeedback
    \/ ContinuePhoto
    \/ \E t \in Typed : TypeVisitorName(t)
    \/ handleSubmit
    \/ \E i \in 1..Len(reads) : SubmitPhotoRead(i)
    \/ \E i \in 1..Len(reads) : SubmitPhotoReadFails(i)
    \/ ThankYouTimeout
    \/ ExecSaveEntry
    \/ RequestError
    \/ TxnComplete
    \/ TxnAbort

(***************************************************************************)
(* js/app.js: the browse screen and the admin screen                       *)
(***************************************************************************)

\* The password handleDeleteAll compares the prompt's answer with
Secret == "67886788"

\* What a user answers to the prompt: cancels it, or types something
Passwords == { CancelPrompt, "", "6788", Secret }

\* The names typed into the admin form
AdminTyped == { <<" ">>, <<" ", "Ann Lee">> }

\* A slide that is in the document or has an onDone to run
InUse(slide) == slide.attached \/ slide.listening

\* The slides still in use, each currentSlide found at its new place; a
\* currentSlide that has left the document has no parentNode and is not
\* looked for any more
Compact(s) ==
    LET placed == [i \in 1..Len(s) |->
                     [s[i] EXCEPT !.exits =
                         IF @ # 0 /\ s[@].attached
                         THEN Cardinality({j \in 1..@ : InUse(s[j])})
                         ELSE 0]]
    IN  SelectSeq(placed, InUse)

\* feedbackArea.innerHTML = '': the slides leave the document, so their
\* transitions end without a transitionend; the safety timeouts stay
Detached(s) ==
    Compact([i \in 1..Len(s) |->
                [s[i] EXCEPT !.attached = FALSE, !.current = FALSE,
                             !.moving = FALSE]])

\* loadBrowseScreen() up to `await getAllEntries()`
StartBrowseLoad ==
    /\ slides' = Detached(slides)
    /\ Call("getAllEntries", 0, NoEntry)
    /\ waiters' = Append(waiters, AwaitedBy("loadBrowseScreen"))
    /\ UNCHANGED <<vWaiters, visitVars, browseEntries, browseCurrentIndex,
                   browseIsAnimating, prompted, adminVars>>

\* Click on #btn-browse-feedback: the load is started and the screen is
\* shown before the entries have arrived
OpenBrowse ==
    /\ screen = "home"
    /\ loads = <<>>
    /\ StartBrowseLoad
    /\ screen' = "browse"
    /\ loads' = loads

\* The alert of handleDeleteAll is dismissed: loadBrowseScreen() is called
DismissAlert ==
    /\ loads # <<>>
    /\ Head(loads) = "browse"
    /\ StartBrowseLoad
    /\ loads' = Tail(loads)
    /\ screen' = screen

\* A handler of the browse screen that calls no storage function
BrowseFrame ==
    /\ PageFrame
    /\ UNCHANGED <<storeVars, waiters, vWaiters, loads, visitVars, adminVars>>

\* Click on #btn-back-browse
BackBrowse ==
    /\ screen = "browse"
    /\ loads = <<>>
    /\ screen' = "home"
    /\ BrowseFrame
    /\ UNCHANGED browseVars

\* updateBrowseListActive() throws: `item.querySelector('img')` is null for
\* the item of an entry without photo, and its classList is read
updateBrowseListActiveThrows ==
    \E k \in 1..Len(browseEntries) : browseEntries[k].photo = NullURL

\* feedbackArea.querySelector('.browse-slide-current'): the place of the
\* first slide of the document with that class, 0 for null
currentSlide ==
    LET found == {i \in 1..Len(slides) :
                     slides[i].attached /\ slides[i].current}
    IN  IF found = {} THEN 0
        ELSE CHOOSE i \in found : \A j \in found : i <= j

\* The slide of a navigation is appended, the class browse-slide-current
\* passes from currentSlide to it and its transition is started; after
\* updateBrowseListActive() onDone is registered for transitionend and for
\* the safety timeout.  When that call throws, the handler ends there:
\* the flag is set, the transition runs and no onDone is registered.
Animate ==
    /\ browseIsAnimating' = TRUE
    /\ slides' = Append(
           [i \in 1..Len(slides) |->
               IF i = currentSlide THEN [slides[i] EXCEPT !.current = FALSE]
               ELSE slides[i]],
           [attached |-> TRUE, current |-> TRUE, moving |-> TRUE,
            listening |-> ~updateBrowseListActiveThrows,
            exits |-> IF updateBrowseListActiveThrows THEN 0
                      ELSE currentSlide])
    /\ BrowseFrame
    /\ UNCHANGED <<screen, browseEntries, prompted>>

\* navigateBrowse(direction), from the previous / next buttons and from a
\* swipe
navigateBrowse(direction) ==
    /\ screen = "browse"
    /\ loads = <<>>
    /\ ~browseIsAnimating
    /\ IF direction = "next"
       THEN /\ ~(browseCurrentIndex >= Len(browseEntries) - 1)
            /\ browseCurrentIndex' = browseCurrentIndex + 1
       ELSE /\ ~(browseCurrentIndex <= 0)
            /\ browseCurrentIndex' = browseCurrentIndex - 1
    /\ Animate

\* navigateBrowseToIndex(index), from a click on an item of the list
navigateBrowseToIndex(index) ==
    /\ screen = "browse"
    /\ loads = <<>>
    /\ ~(\/ browseIsAnimating
         \/ index = browseCurrentIndex
         \/ index < 0
         \/ index >= Len(browseEntries))
    /\ browseCurrentIndex' = index
    /\ Animate

\* onDone of slide i: its transitionend while it is in the document, or
\* its safety timeout.  The listener and the timeout go, currentSlide is
\* removed from the document when it is still there, the flag is cleared.
onDone(i) ==
    /\ loads = <<>>
    /\ slides[i].listening
    /\ browseIsAnimating' = FALSE
    /\ slides' = Compact(
           [j \in 1..Len(slides) |->
               IF j = i
               THEN [slides[j] EXCEPT !.listening = FALSE, !.moving = FALSE,
                                      !.exits = 0]
               ELSE IF j = slides[i].exits
               THEN [slides[j] EXCEPT !.attached = FALSE, !.moving = FALSE]
               ELSE slides[j]])
    /\ BrowseFrame
    /\ UNCHANGED <<screen, browseEntries, browseCurrentIndex, prompted>>

\* The transition of slide i ends and nothing listens to it
TransitionEnd(i) ==
    /\ loads = <<>>
    /\ slides[i].moving
    /\ ~slides[i].listening
    /\ slides' = [slides EXCEPT ![i].moving = FALSE]
    /\ BrowseFrame
    /\ UNCHANGED <<screen, browseEntries, browseCurrentIndex,
                   browseIsAnimating, prompted>>

\* Click on #btn-export-json: handleExportJSON() up to
\* `await getAllEntries()`; what follows changes nothing of the page
handleExportJSON ==
    /\ screen = "browse"
    /\ loads = <<>>
    /\ Call("getAllEntries", 0, NoEntry)
    /\ waiters' = Append(waiters, AwaitedBy("handleExportJSON"))
    /\ UNCHANGED <<screen, vWaiters, loads, visitVars, browseVars, adminVars>>

\* handleDeleteAll() without the confirmation: the storage call follows
\* the password alone
DeleteAllUnconfirmed(password, confirmDelete) ==
    /\ screen = "browse"
    /\ loads = <<>>
    /\ prompted' = [password |-> password, confirm |-> confirmDelete]
    /\ IF password = Secret
       THEN /\ Call("deleteAllEntries", 0, NoEntry)
            /\ waiters' = Append(waiters, AwaitedBy("handleDeleteAll"))
       ELSE /\ PageFrame
            /\ UNCHANGED <<storeVars, waiters>>
    /\ UNCHANGED <<screen, vWaiters, loads, visitVars, browseEntries,
                   browseCurrentIndex, browseIsAnimating, slides, adminVars>>

\* handleDeleteAll() up to `await deleteAllEntries()`: prompt, comparison,
\* confirm; the confirmation is asked for only after the right password
handleDeleteAll(password, confirmDelete) ==
    /\ screen = "browse"
    /\ loads = <<>>
    /\ prompted' = [password |-> password, confirm |-> confirmDelete]
    /\ IF password # CancelPrompt /\ password = Secret /\ confirmDelete
       THEN /\ Call("deleteAllEntries", 0, NoEntry)
            /\ waiters' = Append(waiters, AwaitedBy("handleDeleteAll"))
       ELSE /\ PageFrame
            /\ UNCHANGED <<storeVars, waiters>>
    /\ UNCHANGED <<screen, vWaiters, loads, visitVars, browseEntries,
                   browseCurrentIndex, browseIsAnimating, slides, adminVars>>

\* loadAdminVisitors() up to `await getAllVisitors()`
StartAdminLoad ==
    /\ Call("getAllVisitors", 0, NoVisitor)
    /\ vWaiters' = Append(vWaiters, AwaitedBy("loadAdminVisitors"))
    /\ UNCHANGED <<waiters, visitVars, browseVars, adminVars>>

\* Click on #btn-admin
OpenAdmin ==
    /\ screen = "home"
    /\ loads = <<>>
    /\ StartAdminLoad
    /\ screen' = "admin"
    /\ loads' = loads

\* A handler of the admin screen that calls no storage function
AdminFrame ==
    /\ PageFrame
    /\ UNCHANGED <<storeVars, waiters, vWaiters, loads, visitVars,
                   browseVars>>

\* Click on #btn-back-admin
BackAdmin ==
    /\ screen = "admin"
    /\ loads = <<>>
    /\ resetAdminForm
    /\ screen' = "home"
    /\ AdminFrame
    /\ UNCHANGED <<adminReads, adminCards>>

\* The administrator types a name
TypeAdminName(t) ==
    /\ screen = "admin"
    /\ loads = <<>>
    /\ adminNameInput # t
    /\ adminNameInput' = t
    /\ AdminFrame
    /\ UNCHANGED <<screen, adminDesignationInput, adminPhotoDataURL,
                   adminReads, adminCards>>

\* handleAdminPhotoSelect(event): the file is handed to a FileReader
handleAdminPhotoSelect(f) ==
    /\ screen = "admin"
    /\ loads = <<>>
    /\ Len(adminReads) < MaxPicks
    /\ adminReads' = Append(adminReads, f)
    /\ AdminFrame
    /\ UNCHANGED <<screen, adminNameInput, adminDesignationInput,
                   adminPhotoDataURL, adminCards>>

\* canvas.toDataURL('image/jpeg', 0.85) of the picture drawn to the canvas
AdminPhotoOf(f) == ReadAsDataURL([type |-> "image/jpeg", bytes |-> f.bytes])

\* reader.onload and img.onload of read i: the picture is resized and kept
AdminPhotoLoaded(i) ==
    /\ loads = <<>>
    /\ adminPhotoDataURL' = AdminPhotoOf(adminReads[i])
    /\ adminReads' = Remove(adminReads, i)
    /\ AdminFrame
    /\ UNCHANGED <<screen, adminNameInput, adminDesignationInput,
                   adminCards>>

\* The visitor handleAddVisitor hands to addVisitor
FormVisitor(name, designation) ==
    [photo |-> adminPhotoDataURL, name |-> name,
     designation |-> designation]

\* What handleAddVisitor does with a name it accepts; the call of
\* loadAdminVisitors() that follows the write is counted with it
AddFromForm(name) ==
    /\ calls + 1 < MaxCalls
    /\ Call("addVisitor", 0, FormVisitor(name, Trim(adminDesignationInput)))
    /\ vWaiters' = Append(vWaiters, AwaitedBy("handleAddVisitor"))
    /\ UNCHANGED <<screen, waiters, loads, visitVars, browseVars, adminVars>>

\* handleAddVisitor() that tests the value of the input as it was typed
AddVisitorUntrimmed ==
    /\ screen = "admin"
    /\ loads = <<>>
    /\ adminNameInput # NoText
    /\ AddFromForm(Trim(adminNameInput))

\* handleAddVisitor() up to `await addVisitor(...)`; without a name it
\* alerts and returns
handleAddVisitor ==
    /\ screen = "admin"
    /\ loads = <<>>
    /\ Trim(adminNameInput) # ""
    /\ AddFromForm(Trim(adminNameInput))

\* Click on the delete button of card k, the confirm accepted; the call of
\* loadAdminVisitors() that follows the write is counted with it
DeleteVisitorClick(k) ==
    /\ screen = "admin"
    /\ loads = <<>>
    /\ calls + 1 < MaxCalls
    /\ Call("deleteVisitor", adminCards[k].id, NoVisitor)
    /\ vWaiters' = Append(vWaiters, AwaitedBy("deleteVisitor"))
    /\ UNCHANGED <<screen, waiters, loads, visitVars, browseVars, adminVars>>

\* The browse screen over the entries store
NextBrowse ==
    \/ TapSplash
    \/ SplashTimeout
    \/ OpenBrowse
    \/ BackBrowse
    \/ \E direction \in {"prev", "next"} : navigateBrowse(direction)
    \/ \E index \in 0..Len(browseEntries) - 1 : navigateBrowseToIndex(index)
    \/ \E i \in 1..Len(slides) : onDone(i)
    \/ \E i \in 1..Len(slides) : TransitionEnd(i)
    \/ \E password \in Passwords, confirmDelete \in BOOLEAN :
           handleDeleteAll(password, confirmDelete)
    \/ DismissAlert
    \/ handleExportJSON
    \/ ExecGetAllEntries
    \/ ExecDeleteAllEntries
    \/ RequestError
    \/ TxnComplete
    \/ TxnAbort

\* The admin screen over the visitors store
NextAdmin ==
    \/ TapSplash
    \/ SplashTimeout
    \/ OpenAdmin
    \/ BackAdmin
    \/ \E t \in AdminTyped : TypeAdminName(t)
    \/ \E f \in Files : handleAdminPhotoSelect(f)
    \/ \E i \in 1..Len(adminReads) : AdminPhotoLoaded(i)
    \/ handleAddVisitor
    \/ \E k \in 1..Len(adminCards) : DeleteVisitorClick(k)
    \/ ExecAddVisitor
    \/ ExecGetAllVisitors
    \/ ExecDeleteVisitor
    \/ VisitorRequestError
    \/ VisitorTxnComplete
    \/ VisitorTxnAbort

(***************************************************************************)
(* Specifications                                                          *)
(***************************************************************************)
\* The storage module on an origin without service worker activity
InitFreshOrigin == Init /\ caches = <<>>

SpecStore == InitFreshOrigin /\ [][NextStore]_vars

\* The storage module on a device earlier visits have used
InitReturningVisit ==
    InitStored /\ InitGateway /\ caches = <<>> /\ InitUtilities /\ InitUI

SpecCollections == InitReturningVisit /\ [][NextCollections]_vars

\* The service workers, no storage call in progress
SpecGateway == Init /\ [][NextGateway]_vars

\* Both collections in use: init() of the page has awaited initDB(), which
\* opened the database of an earlier visit holding one entry and one visitor
InitBothCollections ==
    /\ db = 1
    /\ openReqs = <<Answered("success")>>
    /\ handles = {1}
    /\ last = Result("initDB", TRUE, 1, NoRecord, <<>>)
    /\ upgrades = 0
    /\ calls = 0
    /\ txQueue = <<>>
    /\ txUndo = NoUndo
    /\ savedAs = {}
    /\ everDeleted = {}
    /\ vQueue = <<>>
    /\ vUndo = NoVUndo
    /\ addedAs = {}
    /\ StoredDatabase("both", 1, 1)
    /\ InitGateway
    /\ caches = <<>>
    /\ InitUtilities
    /\ InitUI

SpecVisitors == InitBothCollections /\ [][NextVisitors]_vars

\* A Blob converted to a data URL and back, on a page that does nothing else
InitRoundTrip ==
    InitStore /\ InitGateway /\ caches = <<>> /\ InitConversion /\ InitUI

SpecUtilities == InitRoundTrip /\ [][NextUtilities]_vars

\* The kiosk in use: init() of the page has awaited initDB(), which opened
\* the database of this deployment; n entries were submitted, those of
\* `photoless` without a photo, and m visitors registered through the page
\* on earlier days; no service worker is at work
KioskStore(n, m, photoless) ==
    /\ db = 1
    /\ openReqs = <<Answered("success")>>
    /\ handles = {1}
    /\ last = Result("initDB", TRUE, 1, NoRecord, <<>>)
    /\ upgrades = 0
    /\ calls = 0
    /\ txQueue = <<>>
    /\ txUndo = NoUndo
    /\ savedAs = {}
    /\ everDeleted = {}
    /\ vQueue = <<>>
    /\ vUndo = NoVUndo
    /\ addedAs = {}
    /\ dbVersion = DB_VERSION
    /\ stores = {ENTRIES_STORE, VISITORS_STORE}
    /\ indexes = {<<ENTRIES_STORE, "timestamp">>, <<VISITORS_STORE, "name">>}
    /\ entries = [k \in 1..n |->
                     StoredRecord(EntryData(
                         [photo |-> IF k \in photoless THEN NullURL
                                    ELSE ReadAsDataURL(
                                             [type |-> "image/jpeg",
                                              bytes |-> <<255, 0>>]),
                          signature |-> "data:image/png;strokes",
                          name |-> "Jane Doe", designation |-> "Engineer"],
                         9), k)]
    /\ tsIndex = [k \in 1..n |-> [key |-> toISOString(9), id |-> k]]
    /\ keyGen = n + 1
    /\ visitors = [k \in 1..m |->
                      StoredVisitor(VisitorData(
                          [photo |-> ReadAsDataURL([type |-> "image/jpeg",
                                                    bytes |-> <<77, 255>>]),
                           name |-> "Ann Lee", designation |-> "Captain"],
                          9), k)]
    /\ vKeyGen = m + 1
    /\ InitGateway
    /\ caches = <<>>
    /\ InitUtilities

\* A visitor arrives: one visitor is registered, the home screen is shown
InitVisit == KioskStore(0, 1, {}) /\ InitUI

SpecPhoto == InitVisit /\ [][NextPhoto]_vars

\* The feedback screen has just been set up for a visitor who typed a name
\* on the photo screen and took a photo with the camera, or took none; the
\* timeout of init() has fired by then, or is still pending
InitSubmit ==
    /\ KioskStore(0, 1, {})
    /\ screen = "feedback"
    /\ splashTimer \in BOOLEAN
    /\ waiters = <<>>
    /\ vWaiters = <<>>
    /\ InitOtherScreens
    /\ cards = GetAll(visitors, 1)
    /\ sectionShown = TRUE
    /\ photoNameInput = <<" ", "Bo", " ">>
    /\ photoDesignationInput = NoText
    /\ currentVisitorName = "Bo"
    /\ currentVisitorDesignation = ""
    /\ selectedVisitorId = 0
    /\ \/ /\ currentPhotoBlob = [type |-> "", bytes |-> <<>>]
          /\ currentPhotoURL = NullURL
          /\ objectURLs = {}
          /\ urlSeq = 0
          /\ picks = <<>>
       \/ \E f \in Files :
             /\ currentPhotoBlob = f
             /\ currentPhotoURL = ObjectURL(1, f)
             /\ objectURLs = {ObjectURL(1, f)}
             /\ urlSeq = 1
             /\ picks = <<PickOfFile(f)>>
    /\ conversions = <<>>
    /\ hasDrawn = FALSE
    /\ isDrawing = FALSE
    /\ pixels = "blank"
    /\ eraserMode = FALSE
    /\ points = 0
    /\ visitorName = <<"Bo">>
    /\ visitorDesignation = NoText
    /\ reads = <<>>
    /\ visit = 1
    /\ savedBy = {}
    /\ timers = 0
    /\ thankyou = [photo |-> NullURL, signature |-> ""]

SpecSubmit == InitSubmit /\ [][NextSubmit]_vars

\* The kiosk with three entries in its book, all of visitors with a photo
\* or the second of a visitor without one, at the home screen
InitBrowse == (\E photoless \in {{}, {2}} : KioskStore(3, 1, photoless)) /\ InitUI

SpecBrowse == InitBrowse /\ [][NextBrowse]_vars

\* The kiosk with one registered visitor, at the home screen
InitAdmin == KioskStore(0, 1, {}) /\ InitUI

SpecAdmin == InitAdmin /\ [][NextAdmin]_vars

(***************************************************************************)
(* Claims about the Local Store                                            *)
(***************************************************************************)
OpenedConnections == {i \in 1..Len(openReqs) : openReqs[i].state = "success"}

\* A transaction of the entries store is live whose request was answered
\* last among those of the store
HasSettled == \E i \in 1..Len(txQueue) : txQueue[i].latest

\* That transaction
SettledTxn == txQueue[CHOOSE i \in 1..Len(txQueue) : txQueue[i].latest]

\* The same for the visitors store
HasSettledVisitor == \E i \in 1..Len(vQueue) : vQueue[i].latest

SettledVTxn == vQueue[CHOOSE i \in 1..Len(vQueue) : vQueue[i].latest]

\* C1: initDB is idempotent under concurrency: whatever the interleaving of
\* the calls, the database is opened at most once and every call resolves
\* to the same handle.
C1_InitOnce ==
    /\ Cardinality(OpenedConnections) <= 1
    /\ Cardinality(handles) <= 1

\* Date.parse of a timestamp written by toISOString: the instant it denotes
RECURSIVE FromISO(_)
FromISO(str) ==
    IF Len(str) = 0 THEN 0
    ELSE 10 * FromISO(SubSeq(str, 1, Len(str) - 1)) + str[Len(str)]

\* The read transaction of getAllEntries has delivered `last` and is still
\* active, so the store is the one it read
GetAllJustRead ==
    /\ last.op = "getAllEntries"
    /\ last.ok
    /\ HasSettled
    /\ SettledTxn.kind = "getAllEntries"
    /\ SettledTxn.done

RecordsOf(list) == {list[i] : i \in 1..Len(list)}

\* C3: getAllEntries returns exactly the entries currently stored, each
\* once, newest first: the instant of a result is never earlier than the
\* instant of the result after it.
C3_NewestFirst ==
    GetAllJustRead =>
        /\ RecordsOf(last.list) = {entries[k] : k \in DOMAIN entries}
        /\ Len(last.list) = Cardinality(DOMAIN entries)
        /\ \A i \in 1..(Len(last.list) - 1) :
               FromISO(last.list[i].timestamp)
                   >= FromISO(last.list[i + 1].timestamp)

\* A listing of two entries of which the one inserted later carries the
\* earlier instant (the clock was set back), the newer instant coming first
C3_Witness ==
    /\ GetAllJustRead
    /\ Len(last.list) = 2
    /\ last.list[1].id < last.list[2].id
    /\ FromISO(last.list[1].timestamp) > FromISO(last.list[2].timestamp)

\* C8: saveEntry reports success only for a committed record: an identifier
\* it resolved with names a record of the Entries collection holding the
\* submitted data, unless a delete removed it since.
C8_ResolvedIsStored ==
    \A s \in savedAs :
        s.id \notin everDeleted =>
            /\ s.id \in DOMAIN entries
            /\ entries[s.id].photo = s.entry.photo
            /\ entries[s.id].signature = s.entry.signature

\* A text field read back equals the submitted one, an absent one reads ''
SameText(submitted, got) ==
    got = (IF submitted = UNDEFINED THEN "" ELSE submitted)

\* getEntry(id), called after a saveEntry resolved with id, has delivered
\* `last`, and no delete has removed id
GetEntryOfSaved ==
    /\ last.op = "getEntry"
    /\ last.ok
    /\ HasSettled
    /\ SettledTxn.kind = "getEntry"
    /\ SettledTxn.done
    /\ SettledTxn.known
    /\ SettledTxn.id \notin everDeleted

\* C10: round trip: getEntry(id) issued after saveEntry(e) resolved with id
\* returns a record with e's photo, signature, name and designation, with
\* that id and with a populated timestamp.
C10_RoundTrip ==
    GetEntryOfSaved =>
        \A s \in savedAs :
            s.id = SettledTxn.id =>
                /\ last.rec.id = s.id
                /\ last.rec.photo = s.entry.photo
                /\ last.rec.signature = s.entry.signature
                /\ SameText(s.entry.name, last.rec.name)
                /\ SameText(s.entry.designation, last.rec.designation)
                /\ Len(last.rec.timestamp) > 0

\* getEntry(id), called right after a deleteEntry(id) resolved, has
\* delivered `last`
GetEntryAfterDelete ==
    /\ last.op = "getEntry"
    /\ last.ok
    /\ HasSettled
    /\ SettledTxn.kind = "getEntry"
    /\ SettledTxn.done
    /\ SettledTxn.afterDelete

\* deleteEntry(id) has resolved for an id that had no record when its
\* request ran; txUndo holds the collection as it was before the request
DeletedMissing ==
    /\ Len(txQueue) > 0
    /\ ActiveTxn.kind = "deleteEntry"
    /\ ActiveTxn.done
    /\ ActiveTxn.id \notin DOMAIN txUndo.entries
    /\ last.op = "deleteEntry"
    /\ last.num = ActiveTxn.id

\* C11: deleteEntry(id) followed by getEntry(id) returns not-found, and
\* deleteEntry of an id without a record (a second delete of the same id
\* included) resolves and leaves the Entries collection unchanged.
C11_DeleteThenNotFound ==
    /\ GetEntryAfterDelete => last.rec = NoRecord
    /\ DeletedMissing =>
           /\ last.ok
           /\ entries = txUndo.entries
           /\ tsIndex = txUndo.tsIndex

\* C12: deleteAllEntries() leaves the Entries collection empty and leaves
\* the Visitors collection exactly as it was, whatever both held before: the
\* clear request changes nothing of the visitors store, and while the
\* promise settled last is a resolved deleteAllEntries the Entries collection
\* is empty.
C12_ClearKeepsVisitors ==
    /\ [][ExecDeleteAllEntries =>
              /\ entries' = <<>>
              /\ visitors' = visitors
              /\ vKeyGen' = vKeyGen]_vars
    /\ []((last.op = "deleteAllEntries" /\ last.ok) => entries = <<>>)

\* An open request is answered with success in this step
OpenSucceeds ==
    \E i \in 1..Len(openReqs) :
        /\ openReqs[i].state \in {"pending", "upgrading"}
        /\ openReqs'[i].state = "success"

\* The upgrade transactions under way
Upgrading == {i \in 1..Len(openReqs) : openReqs[i].state = "upgrading"}

\* The open requests that have failed
FailedOpens == {i \in 1..Len(openReqs) : openReqs[i].state = "error"}

\* C19: the schema upgrade routine runs exactly once per version bump, also
\* when several initDB calls are in flight together: each run is the step
\* that lifts the stored version to DB_VERSION, the version is never lifted
\* without it, at most one upgrade is under way, the routine has run once
\* more at most than upgrades were rolled back by a failed open, and once a
\* connection is open the stored version is DB_VERSION.
C19_UpgradeOncePerBump ==
    /\ [](upgrades <= 1 + Cardinality(FailedOpens))
    /\ [](Cardinality(Upgrading) <= 1)
    /\ [](OpenedConnections # {} => dbVersion = DB_VERSION)
    /\ [][/\ upgrades' # upgrades =>
                 /\ upgrades' = upgrades + 1
                 /\ dbVersion < DB_VERSION
                 /\ dbVersion' = DB_VERSION
          /\ dbVersion' > dbVersion => upgrades' = upgrades + 1]_vars

\* Two initDB calls were in flight together, both opens have succeeded and
\* the upgrade has run once
C19_Witness ==
    /\ Cardinality(OpenedConnections) = 2
    /\ handles = {1, 2}
    /\ upgrades = 1
    /\ dbVersion = DB_VERSION

\* C20: after a successful initDB from any earlier schema state (no
\* collection, the Entries collection only, or both) both collections exist
\* with their indices, Entries by timestamp and Visitors by name, and the
\* open changes no stored record.
C20_UpgradeKeepsData ==
    /\ [](OpenedConnections # {} =>
              /\ stores = {ENTRIES_STORE, VISITORS_STORE}
              /\ indexes = {<<ENTRIES_STORE, "timestamp">>,
                            <<VISITORS_STORE, "name">>})
    /\ [][(OpenSucceeds \/ upgrades' # upgrades) =>
              /\ entries' = entries
              /\ tsIndex' = tsIndex
              /\ keyGen' = keyGen
              /\ visitors' = visitors
              /\ vKeyGen' = vKeyGen]_vars

\* initDB has resolved on a device whose database had the Entries
\* collection only, holding one record: the upgrade has run, both
\* collections exist and the record is there
C20_Witness ==
    /\ last.op = "initDB"
    /\ last.ok
    /\ upgrades = 1
    /\ savedAs = {}
    /\ DOMAIN entries = {1}
    /\ entries[1].name = "Jane Doe"
    /\ visitors = <<>>
    /\ stores = {ENTRIES_STORE, VISITORS_STORE}

\* An open request is answered with an error in this step
OpenFails ==
    \E i \in 1..Len(openReqs) :
        /\ openReqs[i].state \in {"pending", "upgrading"}
        /\ openReqs'[i].state = "error"

\* The operation that waits for the open request answered next
WaitingOp == openReqs[FirstPendingOpen].op

\* C21: when the engine cannot open the database, the operation that waited
\* for the open (initDB itself or any CRUD operation) rejects, no transaction
\* is created and no record is read or changed, and the shared handle stays
\* as it was: while no open has succeeded it is unset, and a call made then
\* issues a new open request.
C21_OpenFailureRejects ==
    /\ [][OpenFails =>
              /\ last'.op = WaitingOp
              /\ ~last'.ok
              /\ db' = db
              /\ handles' = handles
              /\ txQueue' = txQueue
              /\ vQueue' = vQueue
              /\ entries' = entries
              /\ tsIndex' = tsIndex
              /\ keyGen' = keyGen
              /\ visitors' = visitors]_vars
    /\ [](OpenedConnections = {} => db = 0)
    /\ [][(calls' = calls + 1 /\ OpenedConnections = {}) =>
              /\ Len(openReqs') = Len(openReqs) + 1
              /\ openReqs'[Len(openReqs')].state = "pending"]_vars

\* The open of a saveEntry has failed and the promise rejected; the handle is
\* unset, nothing is stored, and the call made after that has issued a new
\* open request
C21_Witness ==
    /\ Len(openReqs) = 2
    /\ openReqs[1].state = "error"
    /\ openReqs[2].state = "pending"
    /\ openReqs[2].op = "getEntryCount"
    /\ last.op = "saveEntry"
    /\ ~last.ok
    /\ db = 0
    /\ entries = <<>>
    /\ txQueue = <<>>

\* The instants saveEntry can have read from the clock, as stored
ClockStamps == {toISOString(t) : t \in ClockValues}

\* C22: saveEntry stamps the record itself: the record stored by a save has
\* the timestamp read from the clock when the save ran and the identifier
\* the store generated, which is the value the promise resolves with; a
\* timestamp or an id found in the argument is in neither.
C22_StampedByStore ==
    [][keyGen' = keyGen + 1 =>
           /\ last' = Result("saveEntry", TRUE, keyGen, NoRecord, <<>>)
           /\ keyGen \in DOMAIN entries'
           /\ entries'[keyGen].id = keyGen
           /\ entries'[keyGen].timestamp \in ClockStamps
           /\ entries'[keyGen].timestamp = ActiveTxn.data.timestamp
           /\ ActiveTxn.entry.timestamp # <<>> =>
                  entries'[keyGen].timestamp # ActiveTxn.entry.timestamp
           /\ ActiveTxn.entry.id # 0 =>
                  entries'[keyGen].id # ActiveTxn.entry.id]_vars

\* A save whose argument carried a timestamp and an id has resolved: the
\* stored record has neither
C22_Witness ==
    \E s \in savedAs :
        /\ s.entry.timestamp # <<>>
        /\ s.entry.id # 0
        /\ s.id \in DOMAIN entries
        /\ last.op = "saveEntry"
        /\ last.num = s.id
        /\ entries[s.id].timestamp \in ClockStamps
        /\ entries[s.id].timestamp # s.entry.timestamp
        /\ entries[s.id].id # s.entry.id

\* getEntry(id) has delivered `last` for an id that has no record; its read
\* transaction is still active, so the store is the one it read
GetEntryOfMissing ==
    /\ last.op = "getEntry"
    /\ HasSettled
    /\ SettledTxn.kind = "getEntry"
    /\ SettledTxn.done
    /\ last.num = SettledTxn.id
    /\ SettledTxn.id \notin DOMAIN entries

\* C23: getEntry(id) for an id without a record, never assigned or deleted,
\* resolves with the absent result (undefined); it does not reject.
C23_MissingIsAbsent ==
    GetEntryOfMissing => (last.ok /\ last.rec = NoRecord)

\* getEntry of an id whose record was saved and then deleted has resolved
\* with the absent result
C23_Witness ==
    /\ GetEntryOfMissing
    /\ last.ok
    /\ last.rec = NoRecord
    /\ SettledTxn.id \in everDeleted
    /\ \E s \in savedAs : s.id = SettledTxn.id

\* C24: the identifiers saveEntry resolves with are pairwise distinct and
\* increase with the order of insertion, deletes and clears in between
\* included: each is above every identifier a save resolved with before.
C24_IdsNeverReused ==
    [][keyGen' = keyGen + 1 => \A s \in savedAs : s.id < keyGen]_vars

\* getEntryCount() has delivered `last` and its read transaction is still
\* active
CountJustRead ==
    /\ last.op = "getEntryCount"
    /\ last.ok
    /\ HasSettled
    /\ SettledTxn.kind = "getEntryCount"
    /\ SettledTxn.done

\* C25: getEntryCount() resolves with the number of records in the Entries
\* collection, which is the length of the list getAllEntries() reads from
\* the same collection.
C25_CountIsSize ==
    CountJustRead =>
        /\ last.num = Cardinality(DOMAIN entries)
        /\ last.num = Len(OpenCursorDescending(entries, tsIndex))

\* A count of no record, taken after a save and the delete of its record
C25_Witness ==
    /\ CountJustRead
    /\ last.num = 0
    /\ keyGen = 2
    /\ 1 \in everDeleted
    /\ entries = <<>>

\* getAllEntries(), called right after a submission of the entry "Jane Doe",
\* "Engineer", a signature, no photo had resolved with an id, has delivered
\* `last`
GetAllAfterSubmit ==
    /\ GetAllJustRead
    /\ SettledTxn.afterSave # 0
    /\ \A s \in savedAs :
           s.id = SettledTxn.afterSave =>
               /\ s.entry.name = "Jane Doe"
               /\ s.entry.designation = "Engineer"
               /\ s.entry.signature = "sigA"
               /\ s.entry.photo = NULLBLOB

\* C26: end to end: right after the entry "Jane Doe", "Engineer", with a
\* signature and no photo, has been submitted, the first element of
\* getAllEntries() is that entry: the id the save resolved with, the
\* submitted name and designation, photo null, the signature, and a
\* timestamp set during the save.
C26_SubmittedComesFirst ==
    GetAllAfterSubmit =>
        /\ Len(last.list) > 0
        /\ last.list[1].id = SettledTxn.afterSave
        /\ last.list[1].name = "Jane Doe"
        /\ last.list[1].designation = "Engineer"
        /\ last.list[1].photo = NULLBLOB
        /\ last.list[1].signature = "sigA"
        /\ last.list[1].timestamp \in ClockStamps

\* A read called after the promise of a write had resolved, nothing else
\* being in progress, has delivered `last`
ReadAfterWrite ==
    /\ HasSettled
    /\ SettledTxn.done
    /\ SettledTxn.kind \in ReadOps
    /\ SettledTxn.after # NoWrite
    /\ last.op = SettledTxn.kind
    /\ last.ok

\* The ids of the records a read has delivered (none for a count)
IdsRead ==
    IF last.op = "getAllEntries"
    THEN {last.list[i].id : i \in 1..Len(last.list)}
    ELSE IF last.op = "getEntry" /\ last.rec # NoRecord
    THEN {last.rec.id}
    ELSE {}

\* C36: read-your-writes after await: a getEntry, getAllEntries or
\* getEntryCount called once the promise of a write has resolved observes
\* the write: after saveEntry resolved with an id, getEntry of the id and
\* getAllEntries deliver the record and the count is at least one; after
\* deleteEntry(id) neither delivers a record with that id; after
\* deleteAllEntries getEntry delivers nothing, the list is empty and the
\* count is zero.
C36_ReadYourWrites ==
    ReadAfterWrite =>
        LET w == SettledTxn.after
            mine == SettledTxn.kind = "getEntry" => SettledTxn.id = w.id
        IN  /\ w.op = "saveEntry" =>
                   /\ last.op = "getEntryCount" => last.num >= 1
                   /\ (last.op # "getEntryCount" /\ mine) => w.id \in IdsRead
            /\ w.op = "deleteEntry" => w.id \notin IdsRead
            /\ w.op = "deleteAllEntries" =>
                   /\ IdsRead = {}
                   /\ last.op = "getEntryCount" => last.num = 0

\* C27: dataURLToBlob(blobToDataURL(b)) is a Blob with exactly the bytes of
\* b, for every payload b, the empty one included.
C27_BytesRoundTrip ==
    convStep = "blob" => response.bytes = blob.bytes

\* A payload of four bytes (one full group and a padded one) in a Blob
\* without type has made the round trip
C27_Witness ==
    /\ convStep = "blob"
    /\ blob.type = ""
    /\ blob.bytes = <<255, 0, 77, 255>>
    /\ response.bytes = <<255, 0, 77, 255>>
    /\ dataURL[Len(dataURL)] = "="

\* getVisitor(id), called right after an addVisitor resolved with id, has
\* delivered `last`
GetVisitorOfAdded ==
    /\ last.op = "getVisitor"
    /\ last.ok
    /\ HasSettledVisitor
    /\ SettledVTxn.kind = "getVisitor"
    /\ SettledVTxn.done
    /\ SettledVTxn.afterAdd

\* getVisitor(id) has delivered `last` for an id that has no visitor
GetVisitorOfMissing ==
    /\ last.op = "getVisitor"
    /\ HasSettledVisitor
    /\ SettledVTxn.kind = "getVisitor"
    /\ SettledVTxn.done
    /\ last.num = SettledVTxn.id
    /\ SettledVTxn.id \notin DOMAIN visitors

\* C29: visitor round trip: getVisitor(id) issued after addVisitor(v)
\* resolved with id returns a record with that id, v's photo and name, v's
\* designation ('' when absent) and a createdAt read from the clock by the
\* store, not the caller's; getVisitor of an id without a visitor resolves
\* with the absent result.
C29_VisitorRoundTrip ==
    /\ GetVisitorOfAdded =>
           \A a \in addedAs :
               a.id = SettledVTxn.id =>
                   /\ last.rec # NoRecord
                   /\ last.rec.id = a.id
                   /\ last.rec.photo = a.visitor.photo
                   /\ last.rec.name = a.visitor.name
                   /\ SameText(a.visitor.designation, last.rec.designation)
                   /\ last.rec.createdAt \in ClockStamps
                   /\ last.rec.createdAt # a.visitor.createdAt
    /\ GetVisitorOfMissing => (last.ok /\ last.rec = NoRecord)

\* A request of the visitors store is answered, or its transaction ends, in
\* this step
VisitorStep == vQueue' # vQueue

\* A request of the entries store is answered, or its transaction ends, in
\* this step
EntryStep == txQueue' # txQueue

\* The request of a deleteVisitor is answered with success in this step
DeleteVisitorDone ==
    /\ Len(vQueue) > 0
    /\ ActiveVTxn.kind = "deleteVisitor"
    /\ ~ActiveVTxn.done
    /\ Len(vQueue') = Len(vQueue)
    /\ vQueue'[1].done

\* C30: collection isolation: a step of an Entry operation leaves the
\* Visitors collection and its key generator unchanged, a step of a Visitor
\* operation leaves the Entries collection, its index and its key generator
\* unchanged, nothing else changes either collection, and deleteVisitor(id)
\* removes the visitor with that id and no other.
C30_CollectionsIsolated ==
    [][/\ EntryStep => (visitors' = visitors /\ vKeyGen' = vKeyGen)
       /\ VisitorStep =>
              (entries' = entries /\ tsIndex' = tsIndex /\ keyGen' = keyGen)
       /\ (visitors' # visitors \/ vKeyGen' # vKeyGen) =>
              (VisitorStep /\ ActiveVTxn.kind \in VisitorWriteOps)
       /\ (entries' # entries \/ tsIndex' # tsIndex \/ keyGen' # keyGen) =>
              (EntryStep /\ ActiveTxn.kind \in WriteOps)
       /\ DeleteVisitorDone =>
              /\ DOMAIN visitors' = DOMAIN visitors \ {ActiveVTxn.id}
              /\ \A k \in DOMAIN visitors' : visitors'[k] = visitors[k]]_vars

\* On a device with one entry and one visitor, addVisitor has added visitor
\* 2, saveEntry has added entry 2, and deleteVisitor(1) has resolved:
\* visitor 2 and both entries are there
C30_Witness ==
    /\ last.op = "deleteVisitor"
    /\ last.ok
    /\ last.num = 1
    /\ DOMAIN visitors = {2}
    /\ visitors[2].name = "Ann Lee"
    /\ DOMAIN entries = {1, 2}
    /\ savedAs # {}
    /\ addedAs # {}

(***************************************************************************)
(* Claims about the Offline Cache Gateway                                  *)
(***************************************************************************)
Requests == 1..Len(reqs)

Intercepted(q) == q.pc \notin {"start", "passthrough"}

NetworkFirstFor(q) ==
    /\ q.pc \in {"matching", "matchingShell"} => q.net = "failed"
    /\ q.from \in {"cache", "shell", "synthetic"} => q.net = "failed"
    /\ (q.net \in {"ok", "non200"} /\ q.pc = "responded") =>
           /\ q.from = "network"
           /\ q.resp.body # 0

\* C2 as stated: every intercepted same-origin GET goes to the network
\* first, whichever worker of the repository handles it; a cached response
\* is returned only after the network attempt failed.
C2_NetworkFirstAll ==
    \A r \in Requests : Intercepted(reqs[r]) => NetworkFirstFor(reqs[r])

\* C2 amended: the worker of generation visitorbook-v6 goes to the network
\* first for every intercepted same-origin GET; it consults the caches only
\* after the network attempt failed, and a network response, 200 or not, is
\* what the caller receives.
C2_NetworkFirstV6 ==
    \A r \in Requests :
        (Intercepted(reqs[r]) /\ reqs[r].w = "v6") => NetworkFirstFor(reqs[r])

\* The v6 worker has answered one request from the cache after a failed
\* network attempt and another one from the network
C2_Witness ==
    /\ \E r \in Requests :
           /\ reqs[r].w = "v6"
           /\ reqs[r].from = "cache"
           /\ reqs[r].net = "failed"
    /\ \E r \in Requests :
           /\ reqs[r].w = "v6"
           /\ reqs[r].from = "network"
           /\ reqs[r].net = "ok"

\* C4: an intercepted same-origin GET whose network attempt failed and that
\* no cache holds resolves to the cached shell document if it is a
\* navigation and to the 504 response otherwise; it never rejects.
C4_OfflineFallback ==
    \A r \in Requests :
        (Intercepted(reqs[r]) /\ reqs[r].net = "failed" /\ reqs[r].miss) =>
            /\ reqs[r].pc # "rejected"
            /\ reqs[r].pc = "responded" =>
                   IF isNavigationRequest(reqs[r])
                   THEN /\ reqs[r].resp.status = 200
                        /\ reqs[r].resp.url = Url("/index.html")
                   ELSE reqs[r].resp = GatewayTimeout

\* C5: the promise given to respondWith never rejects and never resolves to
\* no response, whatever the network outcome and the cache contents.
C5_AlwaysResponds ==
    \A r \in Requests :
        Intercepted(reqs[r]) =>
            /\ reqs[r].pc # "rejected"
            /\ reqs[r].pc = "responded" => reqs[r].resp # NoResponse

\* C6: when the activate step of a worker completes, its generation is the
\* only one enumerable.
C6_ActivationPurge ==
    [][ \A w \in Workers :
            (wstate[w] = "purging" /\ wstate'[w] = "activated") =>
                CacheNames' = {CACHE_NAME(w)} ]_vars

\* C7: once the newest generation has been activated it is the only cache
\* generation that exists, whatever the requests still in flight in the
\* previous worker do.
C7_OnlyCurrentGeneration ==
    wstate["v6"] = "activated" => CacheNames = {CACHE_NAME("v6")}

\* The requests the network answered with 200 for a URL
OkFor(url) == {r \in Requests : reqs[r].net = "ok" /\ reqs[r].url = url}

Newest(url) == CHOOSE r \in OkFor(url) : \A k \in OkFor(url) : reqs[k].seq <= reqs[r].seq

\* C9 as stated: a GET answered by the network with 200 is returned to the
\* caller, and a cache lookup for the same request returns that response,
\* the newest one if several succeeded.
C9_CachedOnSuccess ==
    \A r \in Requests :
        reqs[r].net = "ok" =>
            /\ reqs[r].resp = NetResponse(reqs[r].url, 200, r)
            /\ CacheStorageMatch(caches, reqs[r].url)
                   = reqs[Newest(reqs[r].url)].resp

\* No generation created before the one request q wrote to holds q's URL
FirstHolder(q) ==
    \A i \in 1..Len(caches) :
        q.url \in DOMAIN caches[i].data =>
            \A j \in 1..Len(caches) : caches[j].cid = q.cid => j <= i

\* C9 amended: a GET answered by the network with 200 is returned to the
\* caller; from the moment its cache write has completed, and until a later
\* write for the same request replaces the entry or the generation is
\* purged, the generation of its worker holds that response for the request
\* and a lookup finds it unless an older generation holds the request.
C9_CachedOnceWritten ==
    \A r \in Requests :
        /\ reqs[r].net = "ok" =>
               /\ reqs[r].pc = "responded"
               /\ reqs[r].resp = NetResponse(reqs[r].url, 200, r)
        /\ reqs[r].put = "stored" =>
               /\ \E i \in 1..Len(caches) :
                      /\ caches[i].cid = reqs[r].cid
                      /\ caches[i].name = CACHE_NAME(reqs[r].w)
                      /\ reqs[r].url \in DOMAIN caches[i].data
                      /\ caches[i].data[reqs[r].url] = reqs[r].resp
               /\ FirstHolder(reqs[r]) =>
                      CacheStorageMatch(caches, reqs[r].url) = reqs[r].resp

\* Two requests for one URL succeeded, both writes completed, and the lookup
\* returns the response written last
C9_Witness ==
    \E r, k \in Requests :
        /\ reqs[k].put = "replaced"
        /\ reqs[r].put = "stored"
        /\ reqs[r].url = reqs[k].url
        /\ CacheStorageMatch(caches, reqs[r].url) = reqs[r].resp

\* The origin of an https URL: the scheme and the host with its port, the
\* host being what stands between the user information, if there is any,
\* and the first slash after the scheme
OriginOf(url) ==
    LET scheme == "https://"
        slashes == {i \in (Len(scheme) + 1)..Len(url) : SubSeq(url, i, i) = "/"}
        stop == IF slashes = {} THEN Len(url) + 1
                ELSE CHOOSE i \in slashes : \A j \in slashes : i <= j
        authority == SubSeq(url, Len(scheme) + 1, stop - 1)
        ats == {i \in 1..Len(authority) : SubSeq(authority, i, i) = "@"}
        host == IF ats = {} THEN authority
                ELSE SubSeq(authority,
                            (CHOOSE i \in ats : \A j \in ats : j <= i) + 1,
                            Len(authority))
    IN  scheme \o host

\* A request that is not GET, or not of the worker's origin
NotIntercepted(q) == q.method # "GET" \/ OriginOf(q.url) # SelfOrigin

\* C13: a request that is not GET, or not of the worker's origin, is never
\* intercepted: respondWith is not called for it, no cache is read for it
\* and its response is in no cache.
C13_NeverIntercepted ==
    \A r \in Requests :
        NotIntercepted(reqs[r]) =>
            /\ reqs[r].pc = "passthrough"
            /\ reqs[r].net = "none"
            /\ reqs[r].from = "none"
            /\ reqs[r].resp = NoResponse
            /\ reqs[r].put = "none"
            /\ \A i \in 1..Len(caches) :
                   \A u \in DOMAIN caches[i].data :
                       caches[i].data[u].body # r

\* C14: install is all-or-nothing: when caching the shell manifest fails the
\* install fails, the worker neither skips waiting nor activates, no cache
\* generation is deleted (none is until a later install has succeeded and
\* its worker purges), nothing of the manifest is cached for it, and the
\* worker active before stays active until a later install succeeds.
C14_InstallAllOrNothing ==
    /\ [][\A w \in Workers :
              InstallFailed(w) =>
                  /\ wstate'[w] = "failed"
                  /\ caches' = caches
                  /\ wstate'[Other(w)] = wstate[Other(w)]]_vars
    /\ [][\A w \in Workers :
              wstate[w] = "failed" =>
                  /\ wstate'[w] \in {"failed", "installing"}
                  /\ wstate[Other(w)] # "purging" =>
                         CacheNames \subseteq CacheNames'
                  /\ wstate[Other(w)] = "activated" =>
                         wstate'[Other(w)] = "activated"]_vars
    /\ [](\A w \in Workers :
              wstate[w] = "failed" =>
                  \A i \in 1..Len(caches) :
                      \A u \in DOMAIN caches[i].data :
                          caches[i].data[u].gen # CACHE_NAME(w))

\* The install of the v6 worker has failed after its generation was opened,
\* and the v4 worker is still the active one, its generation in place
C14_Witness ==
    /\ wstate["v6"] = "failed"
    /\ wstate["v4"] = "activated"
    /\ CacheNames = {CACHE_NAME("v4"), CACHE_NAME("v6")}
    /\ \A u \in ASSETS_TO_CACHE :
           CacheStorageMatch(caches, u) = AssetResponse(u, CACHE_NAME("v4"))

\* The number of generations caches.match looks into for a request: all of
\* them in creation order, up to the first that holds the request
RECURSIVE Consulted(_, _)
Consulted(cs, url) ==
    IF Len(cs) = 0 THEN 0
    ELSE IF url \in DOMAIN Head(cs).data THEN 1
    ELSE 1 + Consulted(Tail(cs), url)

\* C15: at serve time a cache lookup consults at most one cache generation,
\* also between the install of a new generation and its activation.
C15_OneGenerationPerLookup ==
    \A r \in Requests :
        /\ reqs[r].pc = "matching" => Consulted(caches, reqs[r].url) <= 1
        /\ reqs[r].pc = "matchingShell" =>
               Consulted(caches, Url("/index.html")) <= 1

\* The generations of the deployments older than worker w
StaleFor(w) ==
    IF w = "v6" THEN {StaleName, CACHE_NAME("v4")} ELSE {StaleName}

\* C16: activation ordering: a worker claims the clients only after every
\* generation other than its own has been deleted, and it takes no request
\* while a generation of an older deployment exists.
C16_PurgeBeforeServing ==
    [][\A w \in Workers :
          /\ (wstate[w] = "purging" /\ wstate'[w] = "activated") =>
                 CacheNames \subseteq {CACHE_NAME(w)}
          /\ (Len(reqs') > Len(reqs) /\ reqs'[Len(reqs')].w = w) =>
                 CacheNames \cap StaleFor(w) = {}]_vars

\* C17 as stated: when the promise given to the caller has resolved with a
\* network response of status 200, the generation of the worker holds that
\* response for the request.
C17_StoreThenRespond ==
    \A r \in Requests :
        (reqs[r].net = "ok" /\ reqs[r].pc = "responded") =>
            \E i \in 1..Len(caches) :
                /\ caches[i].name = CACHE_NAME(reqs[r].w)
                /\ reqs[r].url \in DOMAIN caches[i].data
                /\ caches[i].data[reqs[r].url] = reqs[r].resp

\* C17 amended: the response of status 200 is returned at once, the cache
\* write being started and not awaited: the step that resolves the promise
\* leaves every cache as it was, and the entry appears, in place of any
\* prior value for the request, only with the later step in which cache.put
\* resolves.
C17_RespondThenStore ==
    /\ [][\A r \in 1..Len(reqs) :
              (reqs[r].net # "ok" /\ reqs'[r].net = "ok") =>
                  /\ reqs'[r].pc = "responded"
                  /\ reqs'[r].put = "opening"
                  /\ caches' = caches]_vars
    /\ [][\A r \in 1..Len(reqs) :
              (reqs[r].put # "stored" /\ reqs'[r].put = "stored") =>
                  /\ reqs[r].pc = "responded"
                  /\ reqs[r].put = "putting"
                  /\ \E i \in 1..Len(caches') :
                         /\ caches'[i].cid = reqs[r].cid
                         /\ caches'[i].name = CACHE_NAME(reqs[r].w)
                         /\ reqs[r].url \in DOMAIN caches'[i].data
                         /\ caches'[i].data[reqs[r].url] = reqs[r].resp]_vars

\* The caller has the network response while the write is still under way
\* and a lookup for the request does not return that response
C17_Witness ==
    \E r \in Requests :
        /\ reqs[r].net = "ok"
        /\ reqs[r].pc = "responded"
        /\ reqs[r].put \in {"opening", "putting"}
        /\ CacheStorageMatch(caches, reqs[r].url) # reqs[r].resp

\* C18: best-effort caching: the caller has the network response of status
\* 200 whatever becomes of the cache write, and when opening the cache or
\* the put fails the response already delivered stays as it is: no error
\* reaches the caller.
C18_BestEffortCaching ==
    /\ [](\A r \in Requests :
              reqs[r].net = "ok" =>
                  /\ reqs[r].pc = "responded"
                  /\ reqs[r].from = "network"
                  /\ reqs[r].resp.status = 200
                  /\ reqs[r].resp.body = r)
    /\ [][\A r \in 1..Len(reqs) :
              (reqs[r].put # "failed" /\ reqs'[r].put = "failed") =>
                  /\ reqs[r].pc = "responded"
                  /\ reqs'[r].pc = "responded"
                  /\ reqs'[r].resp = reqs[r].resp]_vars

\* Two cache writes have failed, one at caches.open and one at cache.put,
\* and both callers hold their network responses
C18_Witness ==
    \E r \in Requests :
        /\ reqs[r].put = "failed"
        /\ reqs[r].cid = 0
        /\ reqs[r].pc = "responded"
        /\ reqs[r].resp = NetResponse(reqs[r].url, 200, r)
        /\ \E k \in Requests :
               /\ reqs[k].put = "failed"
               /\ reqs[k].cid # 0
               /\ reqs[k].pc = "responded"
               /\ reqs[k].resp = NetResponse(reqs[k].url, 200, k)

\* Worker w has been installed successfully and has not been replaced
Installed(w) == wstate[w] \in {"activating", "purging", "activated"}

\* The install of worker w succeeds in this step
InstallSucceeds(w) == wstate[w] = "caching" /\ wstate'[w] = "activating"

\* C28: after a successful install every asset of the shell manifest is in
\* the cache of the installed worker's generation: the install stores a
\* response of status 200 for each, and as long as the worker is the
\* installed one each stays retrievable from that cache.  The manifest holds
\* the root document, /index.html, both stylesheets, the manifest file and
\* every script module loaded at startup.
C28_ShellCached ==
    /\ [][\A w \in Workers :
              InstallSucceeds(w) =>
                  \A u \in ASSETS_TO_CACHE :
                      caches'[CacheIndex(CACHE_NAME(w))].data[u]
                          = AssetResponse(u, CACHE_NAME(w))]_vars
    /\ [](\A w \in Workers :
              Installed(w) =>
                  /\ HasCache(CACHE_NAME(w))
                  /\ \A u \in ASSETS_TO_CACHE :
                         /\ u \in DOMAIN caches[CacheIndex(CACHE_NAME(w))].data
                         /\ caches[CacheIndex(CACHE_NAME(w))].data[u].status
                                = 200)
    /\ [](/\ StartupModules \subseteq ASSETS_TO_CACHE
          /\ { Url("/"), Url("/index.html"), Url("/css/tailwind.css"),
               Url("/css/app.css"), Url("/manifest.json") }
                 \subseteq ASSETS_TO_CACHE)

\* The v6 worker has replaced the v4 worker and is activated; its generation
\* holds the nine assets of the manifest, fetched by its install
C28_Witness ==
    /\ wstate["v6"] = "activated"
    /\ wstate["v4"] = "redundant"
    /\ HasCache(CACHE_NAME("v6"))
    /\ Cardinality(ASSETS_TO_CACHE) = 9
    /\ \A u \in ASSETS_TO_CACHE :
           /\ u \in DOMAIN caches[CacheIndex(CACHE_NAME("v6"))].data
           /\ caches[CacheIndex(CACHE_NAME("v6"))].data[u]
                  = AssetResponse(u, CACHE_NAME("v6"))

\* C35: during serving an entry is written to the cache only for a request
\* whose network fetch returned status 200: a cache write exists only for
\* such a request, a network response of another status is the response
\* returned, as received, and has no cache write, a response taken from the
\* cache, the shell fallback and the synthetic 504 have none, and every
\* entry of every cache has status 200, being the work of an install or the
\* network response of a request that got status 200.
C35_OnlyOkIsCached ==
    /\ \A r \in Requests :
           /\ reqs[r].put # "none" =>
                  /\ reqs[r].net = "ok"
                  /\ reqs[r].from = "network"
                  /\ reqs[r].resp.status = 200
           /\ reqs[r].net = "non200" =>
                  /\ reqs[r].put = "none"
                  /\ reqs[r].pc = "responded"
                  /\ reqs[r].resp = NetResponse(reqs[r].url, 404, r)
           /\ reqs[r].from \in {"cache", "shell", "synthetic"} =>
                  reqs[r].put = "none"
    /\ \A i \in 1..Len(caches) :
           \A u \in DOMAIN caches[i].data :
               /\ caches[i].data[u].status = 200
               /\ caches[i].data[u].gen = "" =>
                      \E r \in Requests :
                          /\ reqs[r].net = "ok"
                          /\ reqs[r].url = u
                          /\ reqs[r].resp = caches[i].data[u]

\* One request got status 404 from the network and returned it, another got
\* the synthetic 504; neither has a cache write and no cache holds an entry
\* for them
C35_Witness ==
    /\ \E r \in Requests :
           /\ reqs[r].net = "non200"
           /\ reqs[r].pc = "responded"
           /\ reqs[r].resp.status = 404
           /\ reqs[r].put = "none"
    /\ \E r \in Requests :
           /\ reqs[r].from = "synthetic"
           /\ reqs[r].resp = GatewayTimeout
           /\ reqs[r].put = "none"
    /\ \A i \in 1..Len(caches) : Url("/img/logo.png") \notin DOMAIN caches[i].data

(***************************************************************************)
(* Claims about the page                                                   *)
(***************************************************************************)
\* The selections made since the last reset whose file did load
LivePicks == {n \in 1..Len(picks) : ~picks[n].failed}

\* The last selection made
LastPick == picks[CHOOSE n \in LivePicks : \A m \in LivePicks : m <= n]

\* The preview URL is that of selection p: a live object URL of its blob
\* for a photo of the camera or gallery, the data URL of the visitor
\* otherwise
ShowsPick(url, p) ==
    IF p.id = 0
    THEN /\ url \in objectURLs
         /\ SubSeq(url, 3, Len(url)) = p.blob.bytes
    ELSE url = p.url

\* C38: the current photo belongs to the most recent selection: once all
\* conversions have finished, the current photo blob, the preview URL and
\* the selected-visitor id are those of the last selection made (the blob
\* and the object URL of a photo of the camera or gallery with no visitor
\* selected, or the blob, the data URL and the id of a pre-registered
\* visitor).
C38_PhotoOfLastSelection ==
    (conversions = <<>> /\ LivePicks # {}) =>
        /\ currentPhotoBlob = LastPick.blob
        /\ ShowsPick(currentPhotoURL, LastPick)
        /\ selectedVisitorId = LastPick.id

\* handleSubmit calls saveEntry in this step
SubmitCallsSave ==
    /\ Len(waiters') = Len(waiters) + 1
    /\ waiters'[Len(waiters')].handler = "handleSubmit"

\* C34: every Entry persisted through the submission flow has a signature
\* present: whenever handleSubmit calls saveEntry the canvas reports
\* content, that is, a pointer-down on the canvas has happened since the
\* canvas was last cleared or its drawn state reset.
C34_SignaturePresent ==
    [][SubmitCallsSave => hasDrawn]_vars

\* The promise of a saveEntry awaited by handleSubmit rejects in this step,
\* or the read of the photo fails: its catch block runs
SubmitRejected ==
    \/ /\ waiters # <<>>
       /\ Head(waiters).handler = "handleSubmit"
       /\ waiters' = Tail(waiters)
       /\ ~last'.ok
    \/ /\ Len(reads') < Len(reads)
       /\ waiters' = waiters

\* The records of the Entries collection saved from set-up v of the
\* feedback screen
SavedFrom(v) == {r \in savedBy : r.visit = v /\ r.id \in DOMAIN entries}

\* C31: if saving the entry fails during submission the in-progress work is
\* kept: the step in which the save is rejected leaves the canvas, its
\* has-drawn flag, the current photo, name and designation and the active
\* screen as they are (so that submit can be activated again), and the page
\* has left the feedback screen for the thank-you screen only for
\* submissions whose record is in the Entries collection.
C31_WorkKeptOnFailure ==
    /\ [][SubmitRejected =>
              UNCHANGED <<screen, canvasVars, currentPhotoBlob,
                          currentPhotoURL, visitorName, visitorDesignation,
                          timers>>]_vars
    /\ [](\A r \in savedBy : r.id \in DOMAIN entries)

\* C37: one submission persists exactly one Entry, also when the submit
\* control is activated again while the first save is in flight: the
\* Entries collection never holds two records saved from the same set-up of
\* the feedback screen.
C37_OneEntryPerSubmission ==
    \A v \in 1..visit : Cardinality(SavedFrom(v)) <= 1

\* The step queues a deleteAllEntries transaction
DeleteAllCalled ==
    /\ Len(txQueue') = Len(txQueue) + 1
    /\ txQueue'[Len(txQueue')].kind = "deleteAllEntries"

\* The answers that let handleDeleteAll go on
Authorised(a) == a.password = Secret /\ a.confirm

\* C32: deleteAllEntries is invoked from the UI only after the entered
\* password equals the shared secret and the second confirmation was
\* accepted; a run of the handler with a cancelled prompt, a wrong password
\* or a declined confirmation leaves the entries unchanged and queues no
\* transaction.
C32_DeleteAllAuthorised ==
    /\ [][DeleteAllCalled => Authorised(prompted')]_vars
    /\ [][(prompted' # prompted /\ ~Authorised(prompted'))
              => (entries' = entries /\ txQueue' = txQueue)]_vars

\* The right password and the accepted confirmation have emptied the book
C32_Witness ==
    /\ Authorised(prompted)
    /\ last.op = "deleteAllEntries"
    /\ last.ok
    /\ DOMAIN entries = {}

\* A transition of a slide that is in the document is running
InProgress ==
    \E i \in 1..Len(slides) : slides[i].attached /\ slides[i].moving

\* The step is a navigation that moves to another entry
Navigated ==
    /\ Len(slides') = Len(slides) + 1
    /\ slides'[Len(slides')].moving
    /\ browseCurrentIndex' # browseCurrentIndex

\* C39: whenever the browse list is non-empty the index is within it, and
\* while a slide animation is in progress no next / prev / jump navigation
\* changes the index, also after the list was reloaded.
C39_BrowseIndexValid ==
    /\ [](browseEntries # <<>>
            => /\ 0 <= browseCurrentIndex
               /\ browseCurrentIndex < Len(browseEntries))
    /\ [][InProgress => ~Navigated]_vars

\* The step queues an addVisitor transaction
AddVisitorCalled ==
    /\ Len(vQueue') = Len(vQueue) + 1
    /\ vQueue'[Len(vQueue')].kind = "addVisitor"

\* C33: every Visitor record persisted through the administrative form has
\* a non-empty name: addVisitor is called only by handleAddVisitor with the
\* non-empty trimmed value of the name input, and every record of the
\* visitors store and every visitor addVisitor resolved for has a name.
C33_VisitorNamed ==
    /\ [][AddVisitorCalled
              => /\ Trim(adminNameInput) # ""
                 /\ vQueue'[Len(vQueue')].visitor.name = Trim(adminNameInput)
                 /\ vQueue'[Len(vQueue')].data.name = Trim(adminNameInput)]_vars
    /\ [](\A k \in DOMAIN visitors : visitors[k].name # "")
    /\ [](\A a \in addedAs : a.visitor.name # "")

\* A visitor typed with blanks around the name has been stored by the form
C33_Witness ==
    /\ \E a \in addedAs :
          /\ a.id \in DOMAIN visitors
          /\ visitors[a.id].name = "Ann Lee"
    /\ last.op = "addVisitor"
    /\ adminNameInput = NoText

====
